---- MODULE Spec2Model ----
(***************************************************************************)
(* Groundwater backend: record aggregation (utils/aggregation.ts), the     *)
(* groundwater read service (services/groundwaterService.ts), the year     *)
(* resolver (utils/yearFiltering.ts), the ranking tool (services/          *)
(* gwTools.ts), the location catalog (services/locationSearch.ts), the    *)
(* seeding script (scripts/seedGroundwaterData.ts), the streaming chat     *)
(* route (routes/gwChat.ts with services/gwAgent.ts) and the seed endpoint *)
(* (index.ts).                                                             *)
(*                                                                         *)
(* JavaScript values are tagged records: a number is [t |-> "num", v |->   *)
(* n], null is [t |-> "null"], NaN is [t |-> "nan"], a string is           *)
(* [t |-> "str", s |-> ...]; an undefined property is a key that is not in *)
(* the DOMAIN of the object.  A fiscal-year label "y-(y+1)" is the integer *)
(* y: the labels all have the same width, so the string comparisons of the *)
(* code order them as the integers are ordered.                            *)
(***************************************************************************)
EXTENDS Integers, Sequences, FiniteSets, Bags, TLC

VARIABLES
    records,    \* AggSpec: the argument list handed to the aggregator
    aggOut,     \* AggSpec: what the last aggregator call returned
    store,      \* the groundwater_data table: a bag of rows
    last,       \* the last read call and what it returned
    locationCache,  \* locationSearch.ts: let locationCache
    fuse,           \* locationSearch.ts: let fuse
    initPc,     \* where the initLocationSearch call stands
    initI,      \* its loop counter i
    initArgs,   \* its arguments retries and delay
    initLog,    \* what it has done so far: loads, failures, waits
    locations,          \* the locations table: a set of rows
    locationDbIdCache,  \* seedGroundwaterData.ts: const locationDbIdCache
    locationNameCache,  \* seedGroundwaterData.ts: const locationNameCache
    seedRun,    \* where seedDatabase stands, with the locals of seedYearData
    seedCalls,  \* the getOrCreateLocation calls of the run and what they returned
    res,        \* the response of the /api/gw-chat/stream request in progress
    streamPc,   \* where the handler and streamGroundwaterChat stand
    env,        \* process.env.ADMIN_SEED_KEY
    adminLog    \* the /api/admin/seed requests handled so far

catVars == <<locationCache, fuse, initPc, initI, initArgs, initLog>>

seedVars == <<locations, locationDbIdCache, locationNameCache, seedRun, seedCalls>>

streamVars == <<res, streamPc>>

adminVars == <<env, adminLog>>

\* the seeding script, the chat route and the admin route
otherVars == <<seedVars, streamVars, adminVars>>

vars == <<records, aggOut, store, last, locationCache, fuse, initPc, initI, initArgs, initLog,
          locations, locationDbIdCache, locationNameCache, seedRun, seedCalls,
          res, streamPc, env, adminLog>>

\* the seeding script has not run in this process
SeedIdle ==
    /\ locations = {}
    /\ locationDbIdCache = <<>>
    /\ locationNameCache = <<>>
    /\ seedRun = [pc |-> "idle"]
    /\ seedCalls = <<>>

\* no chat request is in progress
StreamIdle ==
    /\ res = [headersSent |-> FALSE, statusCode |-> 200, body |-> <<>>, ended |-> FALSE]
    /\ streamPc = [at |-> "idle", chunks |-> 0]

\* no admin request has been made
AdminIdle ==
    /\ env = [t |-> "undefined"]
    /\ adminLog = <<>>

OtherIdle == SeedIdle /\ StreamIdle /\ AdminIdle

-----------------------------------------------------------------------------
(* JavaScript values *)

Num(n) == [t |-> "num", v |-> n]
Str(x) == [t |-> "str", s |-> x]
\* the string that labels fiscal year y
YearLabel(y) == [t |-> "str", year |-> y]
Null == [t |-> "null"]
NaN == [t |-> "nan"]

Undefined == [t |-> "undefined"]

\* obj[key]: undefined when the object has no such property
Get(obj, key) == IF key \in DOMAIN obj THEN obj[key] ELSE Undefined

\* typeof value === "number" && !isNaN(value)
IsNumber(value) == value.t = "num"

\* the empty object {}
EmptyObject == [k \in {} |-> 0]

-----------------------------------------------------------------------------
(* utils/aggregation.ts *)

determineCategoryFromStage_NoUnknown(aggregated) ==
    IF "stageOfExtractionTotal" \notin DOMAIN aggregated THEN "Safe"
    ELSE LET stage == aggregated["stageOfExtractionTotal"] IN
         IF stage < 70 THEN "Safe"
         ELSE IF stage < 90 THEN "Semi-Critical"
         ELSE IF stage < 100 THEN "Critical"
         ELSE "Over-Exploited"

\* determineCategoryFromStage(aggregated.stageOfExtractionTotal): the
\* argument is undefined when no input had a numeric stage
determineCategoryFromStage(aggregated) ==
    IF "stageOfExtractionTotal" \notin DOMAIN aggregated THEN "Unknown"
    ELSE LET stage == aggregated["stageOfExtractionTotal"] IN
         IF stage = 0 THEN "Unknown"
         ELSE IF stage < 70 THEN "Safe"
         ELSE IF stage < 90 THEN "Semi-Critical"
         ELSE IF stage < 100 THEN "Critical"
         ELSE "Over-Exploited"

\* (aggregated[key] || 0)
OrZero(aggregated, key) ==
    IF key \in DOMAIN aggregated /\ aggregated[key] # 0 THEN aggregated[key] ELSE 0

AddRecordFields_FabricateZero(aggregated, data) ==
    [key \in DOMAIN aggregated \cup DOMAIN data |->
        IF key \in DOMAIN data /\ IsNumber(data[key])
        THEN OrZero(aggregated, key) + data[key].v
        ELSE OrZero(aggregated, key)]

\* the inner loop: for (const [key, value] of Object.entries(data))
AddRecordFields(aggregated, data) ==
    [key \in DOMAIN aggregated \cup {k \in DOMAIN data : IsNumber(data[k])} |->
        IF key \in DOMAIN data /\ IsNumber(data[key])
        THEN OrZero(aggregated, key) + data[key].v
        ELSE aggregated[key]]

RECURSIVE SumNumericFields(_, _)
\* the outer loop: for (const record of records), from the empty object
SumNumericFields(recs, aggregated) ==
    IF recs = <<>> THEN aggregated
    ELSE SumNumericFields(Tail(recs), AddRecordFields(aggregated, Head(recs).data))

\* { ...aggregated } as JavaScript values
Spread(aggregated) == [key \in DOMAIN aggregated |-> Num(aggregated[key])]

NoResult == [kind |-> "none"]

aggregateGroundwaterRecords_NoSingleCase(recs) ==
    IF Len(recs) = 0 THEN [kind |-> "null"]
    ELSE LET first == recs[1]
             aggregated == SumNumericFields(recs, EmptyObject)
         IN [kind |-> "record",
             rec |-> [location |-> first.location,
                      year |-> first.year,
                      data |-> [categoryTotal |-> Str(determineCategoryFromStage(aggregated)),
                                categoryCommand |-> Null,
                                categoryNonCommand |-> Null,
                                categoryPoorQuality |-> Null]
                               @@ Spread(aggregated)]]

aggregateGroundwaterRecords(recs) ==
    IF Len(recs) = 0 THEN [kind |-> "null"]
    ELSE IF Len(recs) = 1 THEN [kind |-> "record", rec |-> recs[1]]
    ELSE LET first == recs[1]
             aggregated == SumNumericFields(recs, EmptyObject)
         IN [kind |-> "record",
             rec |-> [location |-> first.location,
                      year |-> first.year,
                      data |-> [categoryTotal |-> Str(determineCategoryFromStage(aggregated)),
                                categoryCommand |-> Null,
                                categoryNonCommand |-> Null,
                                categoryPoorQuality |-> Null]
                               @@ Spread(aggregated)]]

-----------------------------------------------------------------------------
(* services/locationSearch.ts: module state and initLocationSearch *)

\* let fuse: Fuse<LocationRecord> | null = null
NullFuse == [built |-> FALSE]

\* new Fuse(locationCache, {...}): an index over the list it was given
NewFuse(list) == [built |-> TRUE, docs |-> list]

DEFAULT_RETRIES == 5
DEFAULT_DELAY == 2000

\* the module as loaded: empty cache, no index, initLocationSearch not called
NotStarted ==
    /\ locationCache = <<>>
    /\ fuse = NullFuse
    /\ initPc = "idle"
    /\ initI = 0
    /\ initArgs = [retries |-> DEFAULT_RETRIES, delay |-> DEFAULT_DELAY]
    /\ initLog = <<>>

-----------------------------------------------------------------------------
(* AggSpec: the aggregator as a function of its argument list *)

MaxRecords == 3

StageValues == {NaN, Num(0), Num(-35), Num(35), Num(45), Num(50)}
RainValues == {Null, Num(5)}
LabelValues == {Str("safe"), Str("critical")}

TheLocation == [id |-> "L1", name |-> "Bilaspur", type |-> "DISTRICT"]

\* records of one location and year; the stage key may be missing
InputRecords ==
    { [location |-> TheLocation, year |-> 2024,
       data |-> [stageOfExtractionTotal |-> s, rainfallTotal |-> r,
                 categoryTotal |-> c, categoryCommand |-> c]] :
        s \in StageValues, r \in RainValues, c \in LabelValues }
    \cup
    { [location |-> TheLocation, year |-> 2024,
       data |-> [rainfallTotal |-> r, categoryTotal |-> c, categoryCommand |-> c]] :
        r \in RainValues, c \in LabelValues }

AggInit ==
    /\ OtherIdle
    /\ records = <<>>
    /\ aggOut = NoResult
    /\ store = EmptyBag
    /\ last = NoResult
    /\ NotStarted

AddRecord ==
    /\ aggOut = NoResult
    /\ Len(records) < MaxRecords
    /\ \E r \in InputRecords : records' = Append(records, r)
    /\ UNCHANGED <<otherVars, aggOut, store, last, catVars>>

Aggregate ==
    /\ aggOut = NoResult
    /\ aggOut' = aggregateGroundwaterRecords(records)
    /\ UNCHANGED <<otherVars, records, store, last, catVars>>

\* a second aggregation: of the first one's output with itself, or of the
\* same records given twice
Reaggregate ==
    /\ aggOut.kind = "record"
    /\ last = NoResult
    /\ \E how \in {"self", "rows"} :
         last' = [kind |-> "call", op |-> "aggregateGroundwaterRecords", args |-> how,
                  out |-> aggregateGroundwaterRecords(
                              IF how = "self" THEN <<aggOut.rec, aggOut.rec>>
                              ELSE records \o records)]
    /\ UNCHANGED <<otherVars, records, aggOut, store, catVars>>

AggNext == AddRecord \/ Aggregate \/ Reaggregate

AggSpec == AggInit /\ [][AggNext]_vars

-----------------------------------------------------------------------------
(* The locations table as the serving process sees it, in insertion order *)

Catalog ==
    << [id |-> "IN", name |-> "INDIA", type |-> "COUNTRY", parentId |-> "null"],
       [id |-> "S1", name |-> "Chhattisgarh", type |-> "STATE", parentId |-> "IN"],
       [id |-> "S2", name |-> "Himachal Pradesh", type |-> "STATE", parentId |-> "IN"],
       [id |-> "L1", name |-> "Bilaspur", type |-> "DISTRICT", parentId |-> "S1"],
       [id |-> "L2", name |-> "Bilaspur", type |-> "DISTRICT", parentId |-> "S2"],
       [id |-> "L3", name |-> "Raipur", type |-> "DISTRICT", parentId |-> "S1"] >>

LocationOf(id) == CHOOSE l \in {Catalog[i] : i \in 1..Len(Catalog)} : l.id = id

\* position in the catalog: the insertion order of the locations table
CatalogIndex(id) == CHOOSE i \in 1..Len(Catalog) : Catalog[i].id = id

-----------------------------------------------------------------------------
(* The groundwater_data table.  A row is one insert of the seeding script; *)
(* nothing makes (location_id, year) unique, so the table is a bag.        *)

LATEST_YEAR == 2024

RowYears == {2023, 2024}

\* the measurements of a row: rainfall, stage of extraction, stored category
Payloads ==
    { [rainfallTotal |-> Num(5), stageOfExtractionTotal |-> Num(40),
       categoryTotal |-> Str("safe")],
      [rainfallTotal |-> Num(7), stageOfExtractionTotal |-> Num(60),
       categoryTotal |-> Str("semi_critical")],
      [rainfallTotal |-> Null, stageOfExtractionTotal |-> Null,
       categoryTotal |-> Null] }

MakeRow(loc, y, p) ==
    [locationId |-> loc, year |-> y, rainfallTotal |-> p.rainfallTotal,
     stageOfExtractionTotal |-> p.stageOfExtractionTotal,
     categoryTotal |-> p.categoryTotal]

DistrictRows == { MakeRow(loc, y, p) : loc \in {"L1", "L2", "L3"}, y \in RowYears, p \in Payloads }

StateRows ==
    { MakeRow("S1", 2024, [rainfallTotal |-> Num(7), stageOfExtractionTotal |-> Num(60),
                           categoryTotal |-> Str("semi_critical")]) }

\* row.groundwater_data: the row as the JavaScript object the driver returns
RowData(row) ==
    [locationId |-> Str(row.locationId), year |-> YearLabel(row.year),
     rainfallTotal |-> row.rainfallTotal,
     stageOfExtractionTotal |-> row.stageOfExtractionTotal,
     categoryTotal |-> row.categoryTotal]

\* the rows of a bag that satisfy P, with their multiplicity
SelectRows(B, P(_)) == [r \in {x \in BagToSet(B) : P(x)} |-> B[r]]

RECURSIVE Orderings(_)
\* a query without ORDER BY returns the rows in any order
Orderings(B) ==
    IF BagToSet(B) = {} THEN {<<>>}
    ELSE UNION { {<<r>> \o rest : rest \in Orderings(B (-) SetToBag({r}))} : r \in BagToSet(B) }

MapSeq(seq, F(_)) == [i \in 1..Len(seq) |-> F(seq[i])]

Take(seq, n) == SubSeq(seq, 1, IF n < Len(seq) THEN n ELSE Len(seq))

\* seedYearData: db.insert(groundwaterData).values({locationId, year, ...})
Insert(Rows, maxRows) ==
    /\ last = NoResult
    /\ BagCardinality(store) < maxRows
    /\ \E r \in Rows : store' = store (+) SetToBag({r})
    /\ UNCHANGED <<otherVars, records, aggOut, last, catVars>>

-----------------------------------------------------------------------------
(* services/groundwaterService.ts *)

\* result.map((row) => ({ location: {...}, year, data }))
ToGroundwaterRecord(row) ==
    LET l == LocationOf(row.locationId) IN
    [location |-> [id |-> l.id, name |-> l.name, type |-> l.type],
     year |-> row.year,
     data |-> RowData(row)]

\* the possible return values of getGroundwaterDataByLocationId
getGroundwaterDataByLocationId(locationId, year) ==
    LET result == SelectRows(store, LAMBDA r : r.locationId = locationId /\ r.year = year) IN
    IF BagToSet(result) = {} THEN {[kind |-> "null"]}
    ELSE { aggregateGroundwaterRecords(MapSeq(rows, ToGroundwaterRecord)) :
               rows \in Orderings(result) }

NullColumn == "null"

\* fieldToColumn, with a column named by the property that holds it
fieldToColumn(field) ==
    CASE field = "rainfall" -> "rainfallTotal"
      [] field = "recharge" -> "rechargeTotalTotal"
      [] field = "extraction" -> "draftTotalTotal"
      [] field = "draft" -> "draftTotalTotal"
      [] field = "extractable" -> "extractableTotal"
      [] field = "stage" -> "stageOfExtractionTotal"
      [] field = "stage_of_extraction" -> "stageOfExtractionTotal"
      [] field = "loss" -> "lossTotal"
      [] field = "availability" -> "availabilityFutureTotal"
      [] field = "irrigation_extraction" -> "draftAgricultureTotal"
      [] field = "domestic_extraction" -> "draftDomesticTotal"
      [] field = "industrial_extraction" -> "draftIndustryTotal"
      [] field = "recharge_from_rainfall" -> "rechargeRainfallTotal"
      [] OTHER -> NullColumn

\* ORDER BY column ASC | DESC: rows with equal values come in any order
InOrder(rows, column, order) ==
    \A i, j \in 1..Len(rows) :
        i < j => IF order = "desc" THEN rows[i][column].v >= rows[j][column].v
                 ELSE rows[i][column].v <= rows[j][column].v

\* the possible return values of getTopLocationsByField: the query filters on
\* type, year and a non-null column, orders by the column and limits.  A
\* column the model's rows do not carry is null in every row.
getTopLocationsByField(field, locationType, order, limit, year) ==
    LET columnName == fieldToColumn(field) IN
    IF columnName = NullColumn THEN {<<>>}
    ELSE LET result == SelectRows(store, LAMBDA r :
                           /\ LocationOf(r.locationId).type = locationType
                           /\ r.year = year
                           /\ columnName \in DOMAIN r
                           /\ r[columnName] # Null)
         IN { MapSeq(Take(rows, limit), ToGroundwaterRecord) :
                  rows \in {r \in Orderings(result) : InOrder(r, columnName, order)} }

-----------------------------------------------------------------------------
(* Sorting: Array.prototype.sort is stable *)

Min(S) == CHOOSE x \in S : \A y \in S : x <= y
Max(S) == CHOOSE x \in S : \A y \in S : x >= y

\* x goes before the first element that the comparator puts after it
InsertStable(sorted, x, After(_, _)) ==
    LET later == {i \in 1..Len(sorted) : After(sorted[i], x)}
        pos == IF later = {} THEN Len(sorted) + 1 ELSE Min(later)
    IN SubSeq(sorted, 1, pos - 1) \o <<x>> \o SubSeq(sorted, pos, Len(sorted))

Front(seq) == SubSeq(seq, 1, Len(seq) - 1)

RECURSIVE SortByYear(_)
\* .sort((a, b) => a.year.localeCompare(b.year))
SortByYear(seq) ==
    IF seq = <<>> THEN <<>>
    ELSE InsertStable(SortByYear(Front(seq)), seq[Len(seq)], LAMBDA e, x : e.year > x.year)

RECURSIVE SortedYears(_)
\* result.map((r) => r.year).sort()
SortedYears(S) ==
    IF S = {} THEN <<>> ELSE <<Min(S)>> \o SortedYears(S \ {Min(S)})

-----------------------------------------------------------------------------
(* services/locationSearch.ts: reads of the loaded catalog *)

\* name.replace(/[_-]/g, " ").trim().toLowerCase() on the names in use
NormalizeName(name) ==
    CASE name \in {"Bilaspur", "bilaspur", "BILASPUR"} -> "bilaspur"
      [] name \in {"Raipur", "raipur"} -> "raipur"
      [] name \in {"Chhattisgarh", "chhattisgarh"} -> "chhattisgarh"
      [] name \in {"Himachal Pradesh", "himachal-pradesh", "himachal_pradesh"} -> "himachal pradesh"
      [] name \in {"INDIA", "india"} -> "india"
      [] OTHER -> name

FilterSeq(seq, P(_)) ==
    LET idx == {i \in 1..Len(seq) : P(seq[i])}
        RECURSIVE pick(_)
        pick(I) == IF I = {} THEN <<>> ELSE <<seq[Min(I)]>> \o pick(I \ {Min(I)})
    IN pick(idx)

getLocationsByNameAndType(cache, name, type) ==
    FilterSeq(cache, LAMBDA l : l.type = type /\ NormalizeName(l.name) = NormalizeName(name))

getAvailableYears == SortedYears({r.year : r \in BagToSet(store)})

-----------------------------------------------------------------------------
(* utils/aggregation.ts: the by-year path *)

groupRecordsByYear_OneGroupEach(recs) ==
    [i \in 1..Len(recs) |-> [year |-> recs[i].year, records |-> <<recs[i]>>]]

RECURSIVE groupRecordsByYear(_)
\* a Map from year to records, its entries in order of first appearance
groupRecordsByYear(recs) ==
    IF recs = <<>> THEN <<>>
    ELSE LET grouped == groupRecordsByYear(Front(recs))
             record == recs[Len(recs)]
             at == {i \in 1..Len(grouped) : grouped[i].year = record.year}
         IN IF at = {} THEN Append(grouped, [year |-> record.year, records |-> <<record>>])
            ELSE [grouped EXCEPT ![Min(at)].records = Append(@, record)]

aggregateHistoricalRecords(recordsByYear) ==
    SortByYear(MapSeq(FilterSeq(recordsByYear, LAMBDA g : Len(g.records) > 0),
        LAMBDA g :
            LET first == g.records[1]
                aggregated == SumNumericFields(g.records, EmptyObject)
            IN [year |-> g.year,
                locationId |-> first.locationId,
                locationName |-> first.locationName,
                data |-> [categoryTotal |-> Str(determineCategoryFromStage(aggregated))]
                         @@ Spread(aggregated)]))

ToHistoricalRecord(row) ==
    [year |-> row.year,
     locationId |-> row.locationId,
     locationName |-> LocationOf(row.locationId).name,
     data |-> RowData(row)]

\* the possible return values of getHistoricalDataByLocationName
getHistoricalDataByLocationName(locationName, locationType) ==
    LET matchingLocations == getLocationsByNameAndType(locationCache, locationName, locationType)
        locationIds == {matchingLocations[i].id : i \in 1..Len(matchingLocations)}
        result == SelectRows(store, LAMBDA r : r.locationId \in locationIds)
    IN IF Len(matchingLocations) = 0 THEN {<<>>}
       ELSE { aggregateHistoricalRecords(groupRecordsByYear(MapSeq(rows, ToHistoricalRecord))) :
                  rows \in Orderings(result) }

-----------------------------------------------------------------------------
(* utils/yearFiltering.ts *)

\* the empty string, as a year label
EmptyLabel == 0

\* a parameter is truthy when it is present and not the empty string; an
\* array is truthy even when it is empty
Truthy(params, key) == key \in DOMAIN params /\ params[key] # EmptyLabel

Includes(seq, x) == \E i \in 1..Len(seq) : seq[i] = x

TargetYear_IgnoresYear(params) == LATEST_YEAR

\* const targetYear = year || "2024-2025"
TargetYear(params) == IF Truthy(params, "year") THEN params.year ELSE LATEST_YEAR

getFilteredYears_ExclusiveBounds(params, availableYears) ==
    LET targetYear == TargetYear(params)
        fromYear == Truthy(params, "fromYear")
        toYear == Truthy(params, "toYear")
        specificYears == "specificYears" \in DOMAIN params
    IN IF ~fromYear /\ ~toYear /\ ~specificYears
       THEN [isHistorical |-> FALSE, yearsToQuery |-> <<targetYear>>, targetYear |-> targetYear]
       ELSE [isHistorical |-> TRUE,
             yearsToQuery |->
                 IF specificYears /\ Len(params.specificYears) > 0
                 THEN FilterSeq(availableYears, LAMBDA y : Includes(params.specificYears, y))
                 ELSE IF fromYear \/ toYear
                 THEN FilterSeq(availableYears, LAMBDA y :
                          IF fromYear /\ toYear THEN y > params.fromYear /\ y < params.toYear
                          ELSE IF fromYear THEN y > params.fromYear
                          ELSE y < params.toYear)
                 ELSE availableYears,
             targetYear |-> targetYear]

getFilteredYears_HistoricalIfSeveral(params, availableYears) ==
    LET targetYear == TargetYear(params)
        fromYear == Truthy(params, "fromYear")
        toYear == Truthy(params, "toYear")
        specificYears == "specificYears" \in DOMAIN params
        years == IF specificYears /\ Len(params.specificYears) > 0
                 THEN FilterSeq(availableYears, LAMBDA y : Includes(params.specificYears, y))
                 ELSE IF fromYear \/ toYear
                 THEN FilterSeq(availableYears, LAMBDA y :
                          IF fromYear /\ toYear THEN y >= params.fromYear /\ y <= params.toYear
                          ELSE IF fromYear THEN y >= params.fromYear
                          ELSE y <= params.toYear)
                 ELSE availableYears
    IN IF ~fromYear /\ ~toYear /\ ~specificYears
       THEN [isHistorical |-> FALSE, yearsToQuery |-> <<targetYear>>, targetYear |-> targetYear]
       ELSE [isHistorical |-> Len(years) > 1, yearsToQuery |-> years, targetYear |-> targetYear]

\* getFilteredYears(params), given what getAvailableYears() returns
getFilteredYears(params, availableYears) ==
    LET targetYear == TargetYear(params)
        fromYear == Truthy(params, "fromYear")
        toYear == Truthy(params, "toYear")
        specificYears == "specificYears" \in DOMAIN params
    IN IF ~fromYear /\ ~toYear /\ ~specificYears
       THEN [isHistorical |-> FALSE, yearsToQuery |-> <<targetYear>>, targetYear |-> targetYear]
       ELSE [isHistorical |-> TRUE,
             yearsToQuery |->
                 IF specificYears /\ Len(params.specificYears) > 0
                 THEN FilterSeq(availableYears, LAMBDA y : Includes(params.specificYears, y))
                 ELSE IF fromYear \/ toYear
                 THEN FilterSeq(availableYears, LAMBDA y :
                          IF fromYear /\ toYear THEN y >= params.fromYear /\ y <= params.toYear
                          ELSE IF fromYear THEN y >= params.fromYear
                          ELSE y <= params.toYear)
                 ELSE availableYears,
             targetYear |-> targetYear]

\* filterRecordsByYear(records, params): the records of the years in scope
filterRecordsByYear(recs, params) ==
    LET fromYear == Truthy(params, "fromYear")
        toYear == Truthy(params, "toYear")
        specificYears == "specificYears" \in DOMAIN params
    IN IF specificYears /\ Len(params.specificYears) > 0
       THEN FilterSeq(recs, LAMBDA r : Includes(params.specificYears, r.year))
       ELSE IF fromYear \/ toYear
       THEN FilterSeq(recs, LAMBDA r :
                IF fromYear /\ toYear THEN r.year >= params.fromYear /\ r.year <= params.toYear
                ELSE IF fromYear THEN r.year >= params.fromYear
                ELSE r.year <= params.toYear)
       ELSE recs

-----------------------------------------------------------------------------
(* services/gwTools.ts: get_top_locations *)

\* METRIC_CONFIG[metric]?.field ?? metric
metricToField(metric) ==
    CASE metric = "rainfall" -> "rainfallTotal"
      [] metric = "recharge" -> "rechargeTotalTotal"
      [] metric = "extraction" -> "draftTotalTotal"
      [] metric = "extractable" -> "extractableTotal"
      [] metric = "stage_of_extraction" -> "stageOfExtractionTotal"
      [] metric = "loss" -> "lossTotal"
      [] metric = "availability" -> "availabilityFutureTotal"
      [] metric = "irrigation_extraction" -> "draftAgricultureTotal"
      [] metric = "domestic_extraction" -> "draftDomesticTotal"
      [] metric = "industrial_extraction" -> "draftIndustryTotal"
      [] metric = "recharge_from_rainfall" -> "rechargeRainfallTotal"
      [] metric = "net_balance" -> "netBalance"
      [] OTHER -> metric

\* Object.keys(METRIC_CONFIG): the metrics the schema of get_top_locations
\* accepts
VALID_METRICS ==
    {"rainfall", "recharge", "extraction", "extractable", "stage_of_extraction", "loss",
     "availability", "irrigation_extraction", "domestic_extraction",
     "industrial_extraction", "recharge_from_rainfall", "net_balance"}

\* d[metricToField(metric)] ?? null
MetricValue(data, metric) ==
    LET value == Get(data, metricToField(metric)) IN
    IF value = Undefined THEN Null ELSE value

\* the trend series covers the first five entries
TREND_TOP == 5

\* the oversampling factor of the per-year rankings (limit * 2)
OVERSAMPLE == 2

RECURSIVE YearlyRecords(_, _, _, _, _)
\* one getTopLocationsByField call per year in scope: every combination of
\* the lists the calls may return
YearlyRecords(years, metric, type, order, limit) ==
    IF years = <<>> THEN {<<>>}
    ELSE { <<recs>> \o rest :
             recs \in getTopLocationsByField(metric, type, order, limit * OVERSAMPLE, Head(years)),
             rest \in YearlyRecords(Tail(years), metric, type, order, limit) }

\* records.map((r, i) => ({ rank: i + 1, name, value, category }))
RankingOf(recs, metric) ==
    [i \in 1..Len(recs) |->
        [rank |-> i,
         name |-> recs[i].location.name,
         value |-> MetricValue(recs[i].data, metric),
         category |-> Get(recs[i].data, "categoryTotal")]]

RECURSIVE Accumulate(_, _)
\* locationAggregates: an object keyed by location name, its values in the
\* order the names were first seen (no name of the catalog is an integer)
Accumulate(aggregates, ranking) ==
    IF ranking = <<>> THEN aggregates
    ELSE LET r == Head(ranking)
             at == {i \in 1..Len(aggregates) : aggregates[i].name = r.name}
             withName == IF at = {} THEN Append(aggregates, [name |-> r.name, values |-> <<>>])
                         ELSE aggregates
             k == IF at = {} THEN Len(withName) ELSE Min(at)
             pushed == IF r.value # Null
                       THEN [withName EXCEPT ![k].values = Append(@, r.value.v)]
                       ELSE withName
         IN Accumulate(pushed, Tail(ranking))

RECURSIVE AccumulateYears(_, _)
AccumulateYears(aggregates, rankings) ==
    IF rankings = <<>> THEN aggregates
    ELSE AccumulateYears(Accumulate(aggregates, Head(rankings)), Tail(rankings))

RECURSIVE SeqSum(_)
SeqSum(seq) == IF seq = <<>> THEN 0 ELSE Head(seq) + SeqSum(Tail(seq))

SeqRange(seq) == {seq[i] : i \in 1..Len(seq)}

\* a quotient num / den, den > 0
Ratio(num, den) == [num |-> num, den |-> den]
RatioLess(a, b) == a.num * b.den < b.num * a.den
RatioLeq(a, b) == a.num * b.den <= b.num * a.den

\* avgValue, minValue and maxValue of one entry of locationAggregates
Summarise(loc) ==
    [name |-> loc.name,
     avgValue |-> IF Len(loc.values) > 0 THEN Ratio(SeqSum(loc.values), Len(loc.values))
                  ELSE Ratio(0, 1),
     minValue |-> IF Len(loc.values) > 0 THEN Min(SeqRange(loc.values)) ELSE 0,
     maxValue |-> IF Len(loc.values) > 0 THEN Max(SeqRange(loc.values)) ELSE 0]

RECURSIVE SortByAvg(_, _)
\* .sort((a, b) => order === "desc" ? b.avgValue - a.avgValue : a.avgValue - b.avgValue)
SortByAvg(seq, order) ==
    IF seq = <<>> THEN <<>>
    ELSE InsertStable(SortByAvg(Front(seq), order), seq[Len(seq)],
             LAMBDA e, x : IF order = "desc" THEN RatioLess(e.avgValue, x.avgValue)
                           ELSE RatioLess(x.avgValue, e.avgValue))

\* yearlyRankings[y]?.find((r) => r.name === loc.name)?.value ?? null
TrendValue(ranking, name) ==
    LET at == {i \in 1..Len(ranking) : ranking[i].name = name} IN
    IF at = {} THEN Null ELSE ranking[Min(at)].value

TrendData(years, rankings, aggregatedData) ==
    [j \in 1..Len(years) |->
        [year |-> years[j],
         series |-> LET top == Take(aggregatedData, TREND_TOP) IN
                    [i \in 1..Len(top) |->
                        [name |-> top[i].name, value |-> TrendValue(rankings[j], top[i].name)]]]]

\* the possible return values of the tool
getTopLocationsTool(metric, type, order, limit, yearParams) ==
    LET filtered == getFilteredYears(yearParams, getAvailableYears)
        years == filtered.yearsToQuery
    IN IF filtered.isHistorical /\ Len(years) > 1
       THEN { LET rankings == [j \in 1..Len(chosen) |-> RankingOf(chosen[j], metric)]
                  locationAggregates == AccumulateYears(<<>>, rankings)
                  aggregatedData == Take(SortByAvg(MapSeq(locationAggregates, Summarise), order), limit)
              IN [found |-> TRUE, isHistorical |-> TRUE, yearsAnalyzed |-> years,
                  data |-> aggregatedData,
                  trendData |-> TrendData(years, rankings, aggregatedData),
                  fetched |-> chosen] :
                  chosen \in YearlyRecords(years, metric, type, order, limit) }
       ELSE { IF Len(recs) = 0 THEN [found |-> FALSE]
              ELSE [found |-> TRUE, isHistorical |-> FALSE, year |-> filtered.targetYear,
                    data |-> RankingOf(recs, metric),
                    fetched |-> <<recs>>] :
                  recs \in getTopLocationsByField(metric, type, order, limit, filtered.targetYear) }

-----------------------------------------------------------------------------
(* StoreSpec: rows are inserted, and then one read operation is called.  A  *)
(* read depends on the table alone, so one call per behaviour reaches      *)
(* every pair of a table and a call's result.                              *)

MaxRows == 3
MaxLimit == 2

Metrics == {"rainfall", "net_balance"}
LocationTypes == {"STATE", "DISTRICT"}
Orders == {"asc", "desc"}
QueryYears == {2023, 2024}
QueryNames == {"bilaspur", "Raipur"}

\* the year parameters the tool is called with
ToolYearParams ==
    { EmptyObject,
      [fromYear |-> 2023],
      [fromYear |-> 2024],
      [specificYears |-> <<2023>>],
      [specificYears |-> <<2023, 2024>>] }

\* the serving process after a start-up that loaded the catalog
StoreInit ==
    /\ OtherIdle
    /\ records = <<>>
    /\ aggOut = NoResult
    /\ store = EmptyBag
    /\ last = NoResult
    /\ locationCache = Catalog
    /\ fuse = NewFuse(Catalog)
    /\ initPc = "resolved"
    /\ initI = 0
    /\ initArgs = [retries |-> DEFAULT_RETRIES, delay |-> DEFAULT_DELAY]
    /\ initLog = <<[e |-> "load"], [e |-> "ok"]>>

InsertRow == Insert(DistrictRows \cup StateRows, MaxRows)

Called(op, args, out) == [kind |-> "call", op |-> op, args |-> args, out |-> out]

GetGroundwaterDataByLocationId ==
    /\ last = NoResult
    /\ \E locationId \in {"L1", "L2", "S1"}, year \in QueryYears :
         \E out \in getGroundwaterDataByLocationId(locationId, year) :
            last' = Called("getGroundwaterDataByLocationId",
                           [locationId |-> locationId, year |-> year], out)
    /\ UNCHANGED <<otherVars, records, aggOut, store, catVars>>

GetTopLocationsByField ==
    /\ last = NoResult
    /\ \E field \in Metrics, type \in LocationTypes, order \in Orders,
          limit \in 1..MaxLimit, year \in QueryYears :
         \E out \in getTopLocationsByField(field, type, order, limit, year) :
            last' = Called("getTopLocationsByField",
                           [field |-> field, type |-> type, order |-> order,
                            limit |-> limit, year |-> year], out)
    /\ UNCHANGED <<otherVars, records, aggOut, store, catVars>>

GetHistoricalDataByLocationName ==
    /\ last = NoResult
    /\ \E name \in QueryNames :
         \E out \in getHistoricalDataByLocationName(name, "DISTRICT") :
            last' = Called("getHistoricalDataByLocationName",
                           [locationName |-> name, locationType |-> "DISTRICT"], out)
    /\ UNCHANGED <<otherVars, records, aggOut, store, catVars>>

GetTopLocations ==
    /\ last = NoResult
    /\ \E order \in Orders, limit \in 1..MaxLimit, yearParams \in ToolYearParams :
         \E out \in getTopLocationsTool("rainfall", "DISTRICT", order, limit, yearParams) :
            last' = Called("get_top_locations",
                           [metric |-> "rainfall", type |-> "DISTRICT", order |-> order,
                            limit |-> limit, yearParams |-> yearParams], out)
    /\ UNCHANGED <<otherVars, records, aggOut, store, catVars>>

-----------------------------------------------------------------------------
(* YearSpec: the year resolver over the years the table holds *)

\* rows of one district, of the years 2022 to 2025
YearRows ==
    { MakeRow("L3", y, [rainfallTotal |-> Num(5), stageOfExtractionTotal |-> Num(40),
                        categoryTotal |-> Str("safe")]) : y \in 2022..2025 }

YearOptions == {EmptyLabel, 2023, 2024}

\* the year parameters of a request: each key may be missing
YearFilterParams ==
    LET years == [year : YearOptions] \cup {EmptyObject}
        froms == [fromYear : YearOptions] \cup {EmptyObject}
        tos == [toYear : YearOptions] \cup {EmptyObject}
        lists == [specificYears : {<<>>, <<2023>>, <<2021>>, <<2025, 2023>>}] \cup {EmptyObject}
    IN { y @@ f @@ t @@ l : y \in years, f \in froms, t \in tos, l \in lists }

InsertYearRow == Insert(YearRows, MaxRows)

GetFilteredYears ==
    /\ last = NoResult
    /\ \E params \in YearFilterParams :
         last' = Called("getFilteredYears", params, getFilteredYears(params, getAvailableYears))
    /\ UNCHANGED <<otherVars, records, aggOut, store, catVars>>

\* filterRecordsByYear on the historical records of the district, as the
\* search, compare and history tools call it
FilterRecordsByYear ==
    /\ last = NoResult
    /\ \E params \in YearFilterParams :
         \E recs \in getHistoricalDataByLocationName("Raipur", "DISTRICT") :
            last' = Called("filterRecordsByYear", [params |-> params, records |-> recs],
                           filterRecordsByYear(recs, params))
    /\ UNCHANGED <<otherVars, records, aggOut, store, catVars>>

YearNext == InsertYearRow \/ GetFilteredYears \/ FilterRecordsByYear

YearSpec == StoreInit /\ [][YearNext]_vars

-----------------------------------------------------------------------------
(* services/locationSearch.ts: initLocationSearch, step by step *)

MaxRetries == 3

RetryOptions == (-1..MaxRetries) \cup {DEFAULT_RETRIES}
DelayOptions == {0, DEFAULT_DELAY}

Event(e) == [e |-> e]
WaitEvent(ms) == [e |-> "wait", ms |-> ms]

\* the call up to its first await: i = 0, the loop test, db.select() issued
EnterLoop(retries, delay) ==
    /\ initPc = "idle"
    /\ initArgs' = [retries |-> retries, delay |-> delay]
    /\ initI' = 0
    /\ IF 0 < retries
       THEN initPc' = "loading" /\ initLog' = <<Event("load")>>
       ELSE initPc' = "resolved" /\ initLog' = <<>>
    /\ last' = NoResult
    /\ UNCHANGED <<otherVars, records, aggOut, store, locationCache, fuse>>

\* index.ts start(): initLocationSearch() in the background, after listen()
Start == EnterLoop(DEFAULT_RETRIES, DEFAULT_DELAY)

\* initLocationSearch(retries, delay) with other arguments
CallInit == \E retries \in RetryOptions, delay \in DelayOptions : EnterLoop(retries, delay)

\* db.select() resolved: the cache and the index are assigned, the call returns
LoadOk ==
    /\ initPc = "loading"
    /\ locationCache' = Catalog
    /\ fuse' = NewFuse(Catalog)
    /\ initLog' = Append(initLog, Event("ok"))
    /\ initPc' = "resolved"
    /\ last' = NoResult
    /\ UNCHANGED <<otherVars, records, aggOut, store, initI, initArgs>>

LoadFail_WaitsAfterLast ==
    /\ initPc = "loading"
    /\ IF initI < initArgs.retries
       THEN /\ initLog' = initLog \o <<Event("fail"), WaitEvent(initArgs.delay)>>
            /\ initPc' = "waiting"
       ELSE /\ initLog' = initLog \o <<Event("fail"), Event("reject")>>
            /\ initPc' = "rejected"
    /\ last' = NoResult
    /\ UNCHANGED <<otherVars, records, aggOut, store, locationCache, fuse, initI, initArgs>>

\* db.select() rejected: the catch block sets the timer, or throws after the
\* last attempt
LoadFail ==
    /\ initPc = "loading"
    /\ IF initI < initArgs.retries - 1
       THEN /\ initLog' = initLog \o <<Event("fail"), WaitEvent(initArgs.delay)>>
            /\ initPc' = "waiting"
       ELSE /\ initLog' = initLog \o <<Event("fail"), Event("reject")>>
            /\ initPc' = "rejected"
    /\ last' = NoResult
    /\ UNCHANGED <<otherVars, records, aggOut, store, locationCache, fuse, initI, initArgs>>

\* the timer fired: i++, the loop test, the next db.select() issued
TimerFires ==
    /\ initPc = "waiting"
    /\ initI' = initI + 1
    /\ IF initI + 1 < initArgs.retries
       THEN initPc' = "loading" /\ initLog' = Append(initLog, Event("load"))
       ELSE initPc' = "resolved" /\ initLog' = initLog
    /\ last' = NoResult
    /\ UNCHANGED <<otherVars, records, aggOut, store, locationCache, fuse, initArgs>>

-----------------------------------------------------------------------------
(* services/locationSearch.ts: the synchronous reads *)

Threw(message) == [kind |-> "error", message |-> message]
Returned(value) == [kind |-> "value", value |-> value]

NOT_INITIALIZED == "Location search not initialized. Call initLocationSearch first."

\* match distances are in tenths: 0 is a perfect match, 10 no match at all
SCORE_ONE == 10

\* new Fuse(..., { threshold: 0.4 }): a match is at most this far
THRESHOLD == 4

\* the distance fuse.js gives a name for a query, case-insensitive: an equal
\* name is a perfect match, the partial matches of the names in use are
\* tabulated, anything else does not match
MatchDistance(query, name) ==
    LET q == NormalizeName(query) IN
    IF q = NormalizeName(name) THEN 0
    ELSE CASE q = "pur" /\ name \in {"Raipur", "Rampur", "Kanpur"} -> 2
           [] q = "pur" /\ name \in {"Bilaspur", "Jabalpur"} -> 3
           [] q = "pradesh" /\ name \in {"Andhra Pradesh", "Madhya Pradesh", "Uttar Pradesh"} -> 1
           [] q = "pradesh" /\ name = "Himachal Pradesh" -> 2
           [] q = "bilaspur" /\ name \in {"Raipur", "Jabalpur"} -> 4
           [] q = "himachal pradesh" /\ name = "Madhya Pradesh" -> 3
           [] q = "himachal pradesh" /\ name \in {"Andhra Pradesh", "Uttar Pradesh"} -> 4
           [] OTHER -> SCORE_ONE

RECURSIVE SortByScore(_)
\* fuse.js sorts its matches by score, equal scores by position in the list
SortByScore(seq) ==
    IF seq = <<>> THEN <<>>
    ELSE InsertStable(SortByScore(Front(seq)), seq[Len(seq)], LAMBDA e, x : e.score > x.score)

\* fuse.search(query): the entries within the threshold, best first, each
\* with its distance
FuseSearch(index, query) ==
    SortByScore(MapSeq(FilterSeq(index.docs, LAMBDA l : MatchDistance(query, l.name) <= THRESHOLD),
                       LAMBDA l : [item |-> l, score |-> MatchDistance(query, l.name)]))

NoArg == "undefined"

\* if (type), if (parentName && ...): an optional string argument counts
\* when it is given and not empty
HasArg(x) == x # NoArg /\ x # ""

ParentFilter_NoFallback(index, filtered, parentName, parentType) ==
    LET matching == Take(FilterSeq(FuseSearch(index, parentName),
                                   LAMBDA r : r.item.type = parentType), 3)
        ids == {matching[i].item.id : i \in 1..Len(matching)}
    IN FilterSeq(filtered, LAMBDA r : r.item.parentId \in ids)

\* the parent hint: keep the candidates under one of the first three matches
\* of the hint at the parent level, unless that leaves none
ParentFilter(index, filtered, parentName, parentType) ==
    LET matching == Take(FilterSeq(FuseSearch(index, parentName),
                                   LAMBDA r : r.item.type = parentType), 3)
        ids == {matching[i].item.id : i \in 1..Len(matching)}
        parentFiltered == FilterSeq(filtered, LAMBDA r : r.item.parentId \in ids)
    IN IF Len(matching) > 0 /\ Len(parentFiltered) > 0 THEN parentFiltered ELSE filtered

searchLocation_CapBeforeType(query, type, parentName) ==
    IF ~fuse.built THEN Threw(NOT_INITIALIZED)
    ELSE LET results == Take(FuseSearch(fuse, query), 5)
             typed == IF HasArg(type) THEN FilterSeq(results, LAMBDA r : r.item.type = type)
                      ELSE results
             filtered == IF HasArg(parentName) /\ type = "DISTRICT"
                         THEN ParentFilter(fuse, typed, parentName, "STATE")
                         ELSE IF HasArg(parentName) /\ type = "TALUK"
                         THEN ParentFilter(fuse, typed, parentName, "DISTRICT")
                         ELSE typed
         IN Returned(MapSeq(filtered,
                            LAMBDA r : [location |-> r.item, score |-> SCORE_ONE - r.score]))

searchLocation(query, type, parentName) ==
    IF ~fuse.built THEN Threw(NOT_INITIALIZED)
    ELSE LET results == FuseSearch(fuse, query)
             typed == IF HasArg(type) THEN FilterSeq(results, LAMBDA r : r.item.type = type)
                      ELSE results
             filtered == IF HasArg(parentName) /\ type = "DISTRICT"
                         THEN ParentFilter(fuse, typed, parentName, "STATE")
                         ELSE IF HasArg(parentName) /\ type = "TALUK"
                         THEN ParentFilter(fuse, typed, parentName, "DISTRICT")
                         ELSE typed
         IN Returned(MapSeq(Take(filtered, 5),
                            LAMBDA r : [location |-> r.item, score |-> SCORE_ONE - r.score]))

getAllStates == Returned(FilterSeq(locationCache, LAMBDA l : l.type = "STATE"))

getAllDistricts == Returned(FilterSeq(locationCache, LAMBDA l : l.type = "DISTRICT"))

getDistrictsOfState(stateId) ==
    Returned(FilterSeq(locationCache, LAMBDA l : l.type = "DISTRICT" /\ l.parentId = stateId))

getTaluksOfDistrict(districtId) ==
    Returned(FilterSeq(locationCache, LAMBDA l : l.type = "TALUK" /\ l.parentId = districtId))

\* gwTools.ts list_locations
listLocationsTool(locationType, parentName) ==
    LET listed(locs) ==
            Returned([found |-> TRUE, count |-> Len(locs.value),
                      locations |-> MapSeq(locs.value,
                          LAMBDA l : [id |-> l.id, name |-> l.name, type |-> l.type])])
        under(parentType, children(_)) ==
            LET results == searchLocation(parentName, parentType, NoArg) IN
            IF results.kind = "error" THEN results
            ELSE IF Len(results.value) = 0 THEN Returned([found |-> FALSE])
            ELSE listed(children(results.value[1].location.id))
    IN IF locationType = "state" THEN listed(getAllStates)
       ELSE IF locationType = "district" /\ parentName # NoArg
       THEN under("STATE", getDistrictsOfState)
       ELSE IF locationType = "taluk" /\ parentName # NoArg
       THEN under("DISTRICT", getTaluksOfDistrict)
       ELSE Returned([found |-> FALSE])

CatalogReads ==
    {"searchLocation", "getAllStates", "getAllDistricts", "getDistrictsOfState",
     "getTaluksOfDistrict", "getLocationsByNameAndType", "list_locations"}

Read(op, args, out) ==
    /\ last' = Called(op, args, out)
    /\ UNCHANGED <<otherVars, records, aggOut, store, catVars>>

SearchLocation ==
    \E query \in {"bilaspur", "Himachal Pradesh"}, type \in {NoArg, "DISTRICT"},
       parentName \in {NoArg, "himachal-pradesh"} :
        Read("searchLocation", <<query, type, parentName>>,
             searchLocation(query, type, parentName))

GetAllStates == Read("getAllStates", <<>>, getAllStates)

GetAllDistricts == Read("getAllDistricts", <<>>, getAllDistricts)

GetDistrictsOfState ==
    \E stateId \in {"S1", "S2"} :
        Read("getDistrictsOfState", <<stateId>>, getDistrictsOfState(stateId))

GetTaluksOfDistrict ==
    \E districtId \in {"L1"} :
        Read("getTaluksOfDistrict", <<districtId>>, getTaluksOfDistrict(districtId))

GetLocationsByNameAndType ==
    \E name \in {"bilaspur", "Nowhere"}, type \in {"DISTRICT", "STATE"} :
        Read("getLocationsByNameAndType", <<name, type>>,
             Returned(getLocationsByNameAndType(locationCache, name, type)))

ListLocations ==
    \E locationType \in {"state", "district", "taluk"}, parentName \in {NoArg, "Chhattisgarh"} :
        Read("list_locations", <<locationType, parentName>>,
             listLocationsTool(locationType, parentName))

CatalogInit ==
    /\ OtherIdle
    /\ records = <<>>
    /\ aggOut = NoResult
    /\ store = EmptyBag
    /\ last = NoResult
    /\ NotStarted

CatalogNext ==
    \/ Start
    \/ CallInit
    \/ LoadOk
    \/ LoadFail
    \/ TimerFires
    \/ SearchLocation
    \/ GetAllStates
    \/ GetAllDistricts
    \/ GetDistrictsOfState
    \/ GetTaluksOfDistrict
    \/ GetLocationsByNameAndType
    \/ ListLocations

CatalogSpec == CatalogInit /\ [][CatalogNext]_vars

-----------------------------------------------------------------------------
(* StoreSpec, the reads by name: the search picks a location, the table is  *)
(* read for it                                                              *)

\* the location the search puts first for a query, if any; the names in use
\* hold no "_" or "-", so the query is searched as it is
BestMatch(query, locationType) ==
    LET results == searchLocation(query, locationType, NoArg) IN
    IF results.kind = "error" \/ Len(results.value) = 0 THEN {}
    ELSE {results.value[1].location}

\* the possible return values of searchAndGetHistoricalData for a typed query
searchAndGetHistoricalData(query, locationType) ==
    IF BestMatch(query, locationType) = {} THEN {<<>>}
    ELSE UNION { getHistoricalDataByLocationName(bestMatch.name, locationType) :
                     bestMatch \in BestMatch(query, locationType) }

SearchAndGetHistoricalData ==
    /\ last = NoResult
    /\ \E query \in QueryNames :
         \E out \in searchAndGetHistoricalData(query, "DISTRICT") :
            last' = Called("searchAndGetHistoricalData",
                           [query |-> query, locationType |-> "DISTRICT"], out)
    /\ UNCHANGED <<otherVars, records, aggOut, store, catVars>>

StoreNext ==
    \/ InsertRow
    \/ GetGroundwaterDataByLocationId
    \/ GetTopLocationsByField
    \/ GetHistoricalDataByLocationName
    \/ GetTopLocations
    \/ SearchAndGetHistoricalData

StoreSpec == StoreInit /\ [][StoreNext]_vars

-----------------------------------------------------------------------------
(* ReloadSpec: initLocationSearch called again and again while the          *)
(* locations table changes and reads are served                             *)

\* what db.select().from(locations) may return: the table at that moment
Tables ==
    { SubSeq(Catalog, 1, 4),
      Catalog,
      Catalog \o <<[id |-> "L4", name |-> "Durg", type |-> "DISTRICT", parentId |-> "S1"]>> }

\* a later call of initLocationSearch, after the previous one has ended; the
\* module state is what that call left
CallAgain ==
    /\ initPc \in {"resolved", "rejected"}
    /\ \E retries \in 1..2, delay \in {DEFAULT_DELAY} :
         /\ initArgs' = [retries |-> retries, delay |-> delay]
         /\ initI' = 0
         /\ initPc' = "loading"
         /\ initLog' = <<Event("load")>>
    /\ UNCHANGED <<otherVars, records, aggOut, store, last, locationCache, fuse>>

LoadSnapshot_KeepsOldIndex ==
    /\ initPc = "loading"
    /\ \E table \in Tables :
         /\ locationCache' = table
         /\ fuse' = IF fuse.built THEN fuse ELSE NewFuse(table)
    /\ initLog' = Append(initLog, Event("ok"))
    /\ initPc' = "resolved"
    /\ UNCHANGED <<otherVars, records, aggOut, store, last, initI, initArgs>>

\* db.select() resolved with the table of that moment: the fresh array is
\* assigned to locationCache and the index built from it, in one turn of the
\* event loop
LoadSnapshot ==
    /\ initPc = "loading"
    /\ \E table \in Tables :
         /\ locationCache' = table
         /\ fuse' = NewFuse(table)
    /\ initLog' = Append(initLog, Event("ok"))
    /\ initPc' = "resolved"
    /\ UNCHANGED <<otherVars, records, aggOut, store, last, initI, initArgs>>

\* db.select() rejected, as LoadFail, with the last read kept
LoadAttemptFails ==
    /\ initPc = "loading"
    /\ IF initI < initArgs.retries - 1
       THEN /\ initLog' = initLog \o <<Event("fail"), WaitEvent(initArgs.delay)>>
            /\ initPc' = "waiting"
       ELSE /\ initLog' = initLog \o <<Event("fail"), Event("reject")>>
            /\ initPc' = "rejected"
    /\ UNCHANGED <<otherVars, records, aggOut, store, last, locationCache, fuse, initI, initArgs>>

\* the timer fired, as TimerFires, with the last read kept
RetryTimerFires ==
    /\ initPc = "waiting"
    /\ initI' = initI + 1
    /\ IF initI + 1 < initArgs.retries
       THEN initPc' = "loading" /\ initLog' = Append(initLog, Event("load"))
       ELSE initPc' = "resolved" /\ initLog' = initLog
    /\ UNCHANGED <<otherVars, records, aggOut, store, last, locationCache, fuse, initArgs>>

ReloadNext ==
    \/ Start
    \/ CallAgain
    \/ LoadSnapshot
    \/ LoadAttemptFails
    \/ RetryTimerFires
    \/ SearchLocation
    \/ GetAllDistricts
    \/ GetLocationsByNameAndType
    \/ ListLocations

ReloadSpec == CatalogInit /\ [][ReloadNext]_vars

-----------------------------------------------------------------------------
(* SearchSpec: searchLocation over a loaded catalog *)

\* a locations table with four states that match "pradesh", seven districts
\* and two taluks that match "pur", and names shared across levels
SearchCatalog ==
    << [id |-> "IN", name |-> "INDIA", type |-> "COUNTRY", parentId |-> "null"],
       [id |-> "AP", name |-> "Andhra Pradesh", type |-> "STATE", parentId |-> "IN"],
       [id |-> "CG", name |-> "Chhattisgarh", type |-> "STATE", parentId |-> "IN"],
       [id |-> "HP", name |-> "Himachal Pradesh", type |-> "STATE", parentId |-> "IN"],
       [id |-> "MP", name |-> "Madhya Pradesh", type |-> "STATE", parentId |-> "IN"],
       [id |-> "UP", name |-> "Uttar Pradesh", type |-> "STATE", parentId |-> "IN"],
       [id |-> "D1", name |-> "Bilaspur", type |-> "DISTRICT", parentId |-> "CG"],
       [id |-> "D2", name |-> "Bilaspur", type |-> "DISTRICT", parentId |-> "HP"],
       [id |-> "D3", name |-> "Raipur", type |-> "DISTRICT", parentId |-> "CG"],
       [id |-> "D4", name |-> "Rampur", type |-> "DISTRICT", parentId |-> "UP"],
       [id |-> "D5", name |-> "Rampur", type |-> "DISTRICT", parentId |-> "HP"],
       [id |-> "D6", name |-> "Kanpur", type |-> "DISTRICT", parentId |-> "UP"],
       [id |-> "D7", name |-> "Jabalpur", type |-> "DISTRICT", parentId |-> "MP"],
       [id |-> "T1", name |-> "Bilaspur", type |-> "TALUK", parentId |-> "D1"],
       [id |-> "T2", name |-> "Rampur", type |-> "TALUK", parentId |-> "D5"] >>

SearchQueries == {"bilaspur", "pur", "raipur", "pradesh", "", "xyz"}
SearchTypes == {NoArg, "STATE", "DISTRICT", "TALUK"}
SearchHints == {NoArg, "", "pradesh", "himachal-pradesh", "bilaspur", "xyz"}

\* the serving process after a start-up that loaded the locations table as
\* it was then: empty, or filled up to some row
SearchInit ==
    /\ OtherIdle
    /\ records = <<>>
    /\ aggOut = NoResult
    /\ store = EmptyBag
    /\ last = NoResult
    /\ \E n \in 0..Len(SearchCatalog) :
         /\ locationCache = SubSeq(SearchCatalog, 1, n)
         /\ fuse = NewFuse(SubSeq(SearchCatalog, 1, n))
    /\ initPc = "resolved"
    /\ initI = 0
    /\ initArgs = [retries |-> DEFAULT_RETRIES, delay |-> DEFAULT_DELAY]
    /\ initLog = <<[e |-> "load"], [e |-> "ok"]>>

ResolveLocation ==
    \E query \in SearchQueries, type \in SearchTypes, parentName \in SearchHints :
        Read("searchLocation", <<query, type, parentName>>,
             searchLocation(query, type, parentName))

SearchNext == ResolveLocation

SearchSpec == SearchInit /\ [][SearchNext]_vars

-----------------------------------------------------------------------------
(* scripts/seedGroundwaterData.ts: the seeding run.  The upstream service   *)
(* answers a request with any list of entries; an entry named "total" is    *)
(* skipped by the script and is left out of the lists here.  Ids that the   *)
(* database generates are the integers from 1; 0 stands for a null parent.  *)

INDIA_UUID == "ffce954d-24e1-494b-ba7e-0931d8ad6085"

AVAILABLE_YEARS == <<2016, 2019, 2021, 2022, 2023, 2024>>

\* how many of the AVAILABLE_YEARS a run of the model seeds
MaxSeedYears == 2
\* how many states, districts and taluks the upstream lists of a run hold
MaxCalls == 3

NoId == 0

\* the identifiers and names that upstream responses carry
ExternalIds == {INDIA_UUID, "uuid-1", "uuid-2"}
PlaceNames == {"Bilaspur", "Raipur"}

\* the measurements of a seeded row play no part in the run
SeedPayload ==
    [rainfallTotal |-> Num(5), stageOfExtractionTotal |-> Num(40),
     categoryTotal |-> Str("safe")]

\* a Map: get, and set as a new map
MapHas(m, k) == k \in DOMAIN m
MapSet(m, k, v) == (k :> v) @@ m

\* `${type}:${name}:${parentDbId || "null"}`: a type and a generated id hold
\* no colon, so the string determines the three parts; NoId is the "null"
nameCacheKey(type, name, parentDbId) == <<type, name, parentDbId>>

\* gen_random_uuid(): an id that no row has
NewId(table) == Cardinality(table) + 1

\* what a call does: the id it returns, the table and the caches after it
Outcome(id, table, byId, byName, inserted) ==
    [id |-> id, locations |-> table, locationDbIdCache |-> byId,
     locationNameCache |-> byName, inserted |-> inserted]

\* getOrCreateLocation without the lookups by name
getOrCreateLocation_ByExternalIdOnly(externalId, name, type, parentDbId) ==
    LET key == nameCacheKey(type, name, parentDbId)
        existing == {r \in locations : r.externalId = externalId}
        newLocation == [id |-> NewId(locations), externalId |-> externalId,
                        name |-> name, type |-> type, parentId |-> parentDbId]
    IN IF MapHas(locationDbIdCache, externalId)
       THEN {Outcome(locationDbIdCache[externalId], locations, locationDbIdCache,
                     locationNameCache, FALSE)}
       ELSE IF existing # {}
       THEN {Outcome(r.id, locations, MapSet(locationDbIdCache, externalId, r.id),
                     MapSet(locationNameCache, key, r.id), FALSE) : r \in existing}
       ELSE {Outcome(newLocation.id, locations \cup {newLocation},
                     MapSet(locationDbIdCache, externalId, newLocation.id),
                     MapSet(locationNameCache, key, newLocation.id), TRUE)}

\* the set of outcomes of getOrCreateLocation(externalId, name, type,
\* parentDbId) in the current state; the select by name has no ORDER BY, so
\* any matching row may be the one that find() meets first
getOrCreateLocation(externalId, name, type, parentDbId) ==
    LET key == nameCacheKey(type, name, parentDbId)
        existing == {r \in locations : r.externalId = externalId}
        existingByName ==
            {r \in locations : r.name = name /\ r.type = type /\ r.parentId = parentDbId}
        newLocation == [id |-> NewId(locations), externalId |-> externalId,
                        name |-> name, type |-> type, parentId |-> parentDbId]
    IN IF MapHas(locationDbIdCache, externalId)
       THEN {Outcome(locationDbIdCache[externalId], locations, locationDbIdCache,
                     locationNameCache, FALSE)}
       ELSE IF MapHas(locationNameCache, key)
       THEN {Outcome(locationNameCache[key], locations,
                     MapSet(locationDbIdCache, externalId, locationNameCache[key]),
                     locationNameCache, FALSE)}
       ELSE IF existing # {}
       THEN {Outcome(r.id, locations, MapSet(locationDbIdCache, externalId, r.id),
                     MapSet(locationNameCache, key, r.id), FALSE) : r \in existing}
       ELSE IF type # "COUNTRY" /\ existingByName # {}
       THEN {Outcome(r.id, locations, MapSet(locationDbIdCache, externalId, r.id),
                     MapSet(locationNameCache, key, r.id), FALSE) : r \in existingByName}
       ELSE {Outcome(newLocation.id, locations \cup {newLocation},
                     MapSet(locationDbIdCache, externalId, newLocation.id),
                     MapSet(locationNameCache, key, newLocation.id), TRUE)}

\* the call as a step of the run: the table and the caches change and the
\* call is logged with what it returned
CallGetOrCreate(externalId, name, type, parentDbId, out) ==
    /\ out \in getOrCreateLocation(externalId, name, type, parentDbId)
    /\ locations' = out.locations
    /\ locationDbIdCache' = out.locationDbIdCache
    /\ locationNameCache' = out.locationNameCache
    /\ seedCalls' = Append(seedCalls,
                        [externalId |-> externalId, name |-> name, type |-> type,
                         parentDbId |-> parentDbId, id |-> out.id,
                         inserted |-> out.inserted])

\* db.insert(groundwaterData).values({locationId, year, ...})
InsertGroundwaterData(locationId, year) ==
    store' = store (+) SetToBag({MakeRow(locationId, year, SeedPayload)})

SeedYear == AVAILABLE_YEARS[seedRun.y]

\* the calls of the run that came from an upstream list
ListedCalls == Len(seedCalls) - (IF seedRun.pc = "year" THEN seedRun.y - 1 ELSE seedRun.y)

\* rows that an earlier run of the script left in the table
LeftOverTables ==
    { {},
      { [id |-> 1, externalId |-> INDIA_UUID, name |-> "INDIA", type |-> "COUNTRY",
         parentId |-> NoId],
        [id |-> 2, externalId |-> "uuid-1", name |-> "Bilaspur", type |-> "STATE",
         parentId |-> 1] } }

\* seedDatabase, up to the loop: clearDatabase()
ClearDatabase ==
    /\ seedRun.pc = "idle"
    /\ locations' = {}
    /\ store' = EmptyBag
    /\ seedRun' = [pc |-> "year", y |-> 1]
    /\ UNCHANGED <<records, aggOut, last, catVars, streamVars, adminVars,
                   locationDbIdCache, locationNameCache, seedCalls>>

\* seedYearData, up to the loop over the states: get or create India
SeedIndia ==
    /\ seedRun.pc = "year"
    /\ \E out \in getOrCreateLocation(INDIA_UUID, "INDIA", "COUNTRY", NoId) :
         /\ CallGetOrCreate(INDIA_UUID, "INDIA", "COUNTRY", NoId, out)
         /\ seedRun' = [pc |-> "states", y |-> seedRun.y, indiaDbId |-> out.id,
                        stateExternalToDbId |-> <<>>, withUuid |-> {}]
    /\ UNCHANGED <<records, aggOut, store, last, catVars, streamVars, adminVars>>

\* stateExternalToDbId.set: a Map keeps the position of a key it has
SetState(states, externalId, dbId) ==
    IF \E i \in 1..Len(states) : states[i].externalId = externalId
    THEN [i \in 1..Len(states) |->
             IF states[i].externalId = externalId
             THEN [externalId |-> externalId, dbId |-> dbId] ELSE states[i]]
    ELSE Append(states, [externalId |-> externalId, dbId |-> dbId])

\* one turn of the loop over statesData: the entry carries its own
\* locationUUID, or the id comes from the list of available states
SeedState ==
    /\ seedRun.pc = "states"
    /\ ListedCalls < MaxCalls
    /\ \E externalId \in ExternalIds, name \in PlaceNames, own \in BOOLEAN :
         \E out \in getOrCreateLocation(externalId, name, "STATE", seedRun.indiaDbId) :
            /\ CallGetOrCreate(externalId, name, "STATE", seedRun.indiaDbId, out)
            /\ InsertGroundwaterData(out.id, SeedYear)
            /\ seedRun' = [seedRun EXCEPT
                   !.stateExternalToDbId = SetState(@, externalId, out.id),
                   !.withUuid = IF own THEN @ \cup {externalId} ELSE @]
    /\ UNCHANGED <<records, aggOut, last, catVars, streamVars, adminVars>>

\* the loop over the states is over; the loop over stateExternalToDbId begins
BeginDistricts ==
    /\ seedRun.pc = "states"
    /\ seedRun' = [pc |-> "districts", y |-> seedRun.y, indiaDbId |-> seedRun.indiaDbId,
                   stateExternalToDbId |-> seedRun.stateExternalToDbId,
                   withUuid |-> seedRun.withUuid, s |-> 1, districtDbId |-> NoId]
    /\ UNCHANGED <<records, aggOut, store, last, catVars, streamVars, adminVars,
                   locations, locationDbIdCache, locationNameCache, seedCalls>>

\* one turn of the loop over districtsData of the state at hand; a state
\* whose statesData entry has no locationUUID has no stateName and is passed
SeedDistrict ==
    /\ seedRun.pc = "districts"
    /\ seedRun.s <= Len(seedRun.stateExternalToDbId)
    /\ seedRun.stateExternalToDbId[seedRun.s].externalId \in seedRun.withUuid
    /\ ListedCalls < MaxCalls
    /\ \E externalId \in ExternalIds, name \in PlaceNames :
         LET stateDbId == seedRun.stateExternalToDbId[seedRun.s].dbId IN
         \E out \in getOrCreateLocation(externalId, name, "DISTRICT", stateDbId) :
            /\ CallGetOrCreate(externalId, name, "DISTRICT", stateDbId, out)
            /\ InsertGroundwaterData(out.id, SeedYear)
            /\ seedRun' = [seedRun EXCEPT !.districtDbId = out.id]
    /\ UNCHANGED <<records, aggOut, last, catVars, streamVars, adminVars>>

\* one turn of the loop over reportSummary of the district at hand, for a
\* taluk that the block data names
SeedTaluk ==
    /\ seedRun.pc = "districts"
    /\ seedRun.districtDbId # NoId
    /\ ListedCalls < MaxCalls
    /\ \E talukUuid \in ExternalIds, name \in PlaceNames :
         \E out \in getOrCreateLocation(talukUuid, name, "TALUK", seedRun.districtDbId) :
            /\ CallGetOrCreate(talukUuid, name, "TALUK", seedRun.districtDbId, out)
            /\ InsertGroundwaterData(out.id, SeedYear)
    /\ UNCHANGED <<records, aggOut, last, catVars, streamVars, adminVars, seedRun>>

\* the districts of the state at hand are done, or it was passed
NextState ==
    /\ seedRun.pc = "districts"
    /\ seedRun.s <= Len(seedRun.stateExternalToDbId)
    /\ seedRun' = [seedRun EXCEPT !.s = @ + 1, !.districtDbId = NoId]
    /\ UNCHANGED <<records, aggOut, store, last, catVars, streamVars, adminVars,
                   locations, locationDbIdCache, locationNameCache, seedCalls>>

\* seedYearData returns: seedDatabase goes to the next year or ends
EndYear ==
    /\ seedRun.pc = "districts"
    /\ seedRun.s > Len(seedRun.stateExternalToDbId)
    /\ seedRun' = IF seedRun.y < Min({MaxSeedYears, Len(AVAILABLE_YEARS)})
                  THEN [pc |-> "year", y |-> seedRun.y + 1]
                  ELSE [pc |-> "done"]
    /\ UNCHANGED <<records, aggOut, store, last, catVars, streamVars, adminVars,
                   locations, locationDbIdCache, locationNameCache, seedCalls>>

\* the script starts in a fresh process, on a table that may hold old rows
SeedInit ==
    /\ records = <<>>
    /\ aggOut = NoResult
    /\ store = EmptyBag
    /\ last = NoResult
    /\ NotStarted
    /\ StreamIdle
    /\ AdminIdle
    /\ locations \in LeftOverTables
    /\ locationDbIdCache = <<>>
    /\ locationNameCache = <<>>
    /\ seedRun = [pc |-> "idle"]
    /\ seedCalls = <<>>

SeedNext ==
    \/ ClearDatabase
    \/ SeedIndia
    \/ SeedState
    \/ BeginDistricts
    \/ SeedDistrict
    \/ SeedTaluk
    \/ NextState
    \/ EndYear

SeedSpec == SeedInit /\ [][SeedNext]_vars

-----------------------------------------------------------------------------
(* routes/gwChat.ts POST /stream with services/gwAgent.ts                   *)
(* streamGroundwaterChat: one request.  res.body is what has been written   *)
(* to the response, event by event; an await is a step boundary.            *)

\* how many chunks the agent stream of a request yields
MaxChunks == 3

SseEvent(type) == [type |-> type]

\* res.write: the first write sends the headers
Write(r, event) ==
    IF r.ended THEN r
    ELSE [r EXCEPT !.headersSent = TRUE, !.body = Append(@, event)]

\* res.end()
End(r) == [r EXCEPT !.headersSent = TRUE, !.ended = TRUE]

\* res.status(code).json(...)
Json(r, code) ==
    [r EXCEPT !.headersSent = TRUE, !.statusCode = code,
              !.body = Append(@, [type |-> "json", status |-> code]), !.ended = TRUE]

onToken(r) == Write(r, SseEvent("token"))
onChart(r) == Write(r, SseEvent("chart"))
onToolCall(r) == Write(r, SseEvent("tool_call"))
\* one tool_result event, whether the result parses or not
onToolResult(r) == Write(r, SseEvent("tool_result"))

\* onComplete once generateSuggestions has settled; a failure is caught
\* and logged
onComplete_NoDoneOnFailure(r, suggestionsOk) ==
    IF suggestionsOk
    THEN End(Write(Write(r, SseEvent("suggestions")), SseEvent("done")))
    ELSE r

onComplete(r, suggestionsOk) ==
    IF suggestionsOk
    THEN End(Write(Write(r, SseEvent("suggestions")), SseEvent("done")))
    ELSE End(Write(r, SseEvent("done")))

\* onError with an Error
onError(r) == End(Write(r, SseEvent("error")))

\* the catch of the route: a JSON answer before the headers went out, an
\* error event after
RouteCatch(r) == IF ~r.headersSent THEN Json(r, 500) ELSE End(Write(r, SseEvent("error")))

\* the catch of streamGroundwaterChat calls onError; what was thrown is an
\* Error, or null or undefined, and then reading error.message throws out of
\* onError into the catch of the route
StreamCatch(r, thrown) == IF thrown = "Error" THEN onError(r) ELSE RouteCatch(r)

Thrown == {"Error", "nullish"}

\* what a chunk of the agent stream is: an AI message with content, with
\* tool calls, with both, a tool message whose result gives a chart or
\* none, or a message of another kind
ChunkKinds == {"ai_content", "ai_tool_calls", "ai_both", "tool_chart", "tool", "other"}

\* the body of the for-await loop for one chunk
ProcessChunk(r, kind) ==
    CASE kind = "ai_content" -> onToken(r)
      [] kind = "ai_tool_calls" -> onToolCall(r)
      [] kind = "ai_both" -> onToolCall(onToken(r))
      [] kind = "tool_chart" -> onChart(onToolResult(r))
      [] kind = "tool" -> onToolResult(r)
      [] OTHER -> r

StreamStep(r, at, chunks) ==
    /\ res' = r
    /\ streamPc' = [at |-> at, chunks |-> chunks]
    /\ UNCHANGED <<records, aggOut, store, last, catVars, seedVars, adminVars>>

\* the request arrives: a bad query is answered 400; the SSE headers are
\* set; streamGroundwaterChat builds the agent and the messages, which may
\* throw into the catch of the route, and awaits agent.stream
StreamRequest ==
    /\ streamPc.at = "idle"
    /\ \E queryOk \in BOOLEAN, setupOk \in BOOLEAN :
         IF ~queryOk THEN StreamStep(Json(res, 400), "closed", 0)
         ELSE IF ~setupOk THEN StreamStep(RouteCatch(res), "closed", 0)
         ELSE StreamStep(res, "opening", 0)

\* agent.stream resolves
StreamOpens ==
    /\ streamPc.at = "opening"
    /\ StreamStep(res, "streaming", 0)

\* the stream yields a chunk
StreamChunk ==
    /\ streamPc.at = "streaming"
    /\ streamPc.chunks < MaxChunks
    /\ \E kind \in ChunkKinds :
         StreamStep(ProcessChunk(res, kind), "streaming", streamPc.chunks + 1)

\* agent.stream rejects, or the stream throws
StreamFails ==
    /\ streamPc.at \in {"opening", "streaming"}
    /\ \E thrown \in Thrown :
         StreamStep(StreamCatch(res, thrown), "closed", streamPc.chunks)

\* the stream is over: onComplete is called and awaits generateSuggestions;
\* streamGroundwaterChat and the route handler return
StreamEnds ==
    /\ streamPc.at = "streaming"
    /\ StreamStep(res, "suggesting", streamPc.chunks)

\* generateSuggestions settles
SuggestionsSettle ==
    /\ streamPc.at = "suggesting"
    /\ \E suggestionsOk \in BOOLEAN :
         StreamStep(onComplete(res, suggestionsOk), "closed", streamPc.chunks)

StreamInit ==
    /\ records = <<>>
    /\ aggOut = NoResult
    /\ store = EmptyBag
    /\ last = NoResult
    /\ NotStarted
    /\ SeedIdle
    /\ AdminIdle
    /\ StreamIdle

StreamNext ==
    \/ StreamRequest
    \/ StreamOpens
    \/ StreamChunk
    \/ StreamFails
    \/ StreamEnds
    \/ SuggestionsSettle

StreamSpec == StreamInit /\ [][StreamNext]_vars

\* the event loop runs every continuation that is ready, and the awaited
\* calls (the agent stream, generateSuggestions) settle
StreamFairSpec == StreamSpec /\ WF_vars(StreamNext)

-----------------------------------------------------------------------------
(* index.ts POST /api/admin/seed *)

\* how many requests a behaviour of the model makes
MaxRequests == 3

\* the key the handler accepts whatever the environment holds
BUILT_IN_KEY == Str("neersetu2026")

\* process.env.ADMIN_SEED_KEY: not set, set to the empty string, or set
EnvOptions == {Undefined, Str(""), Str("secret")}

\* req.headers["x-admin-key"]: undefined when the header is absent
HeaderOptions == {Undefined, Str(""), Str("secret"), Str("wrong"), BUILT_IN_KEY}

\* adminKey !== process.env.ADMIN_SEED_KEY && adminKey !== "neersetu2026"
Unauthorized(adminKey, seedKey) == adminKey # seedKey /\ adminKey # BUILT_IN_KEY

\* the handler: 401, or the answer "started" and the import of the seeding
\* script
SeedEndpoint(adminKey, seedKey) ==
    IF Unauthorized(adminKey, seedKey)
    THEN [adminKey |-> adminKey, status |-> 401, started |-> FALSE]
    ELSE [adminKey |-> adminKey, status |-> 200, started |-> TRUE]

PostAdminSeed ==
    /\ Len(adminLog) < MaxRequests
    /\ \E adminKey \in HeaderOptions :
         adminLog' = Append(adminLog, SeedEndpoint(adminKey, env))
    /\ UNCHANGED <<records, aggOut, store, last, catVars, seedVars, streamVars, env>>

AdminInit ==
    /\ records = <<>>
    /\ aggOut = NoResult
    /\ store = EmptyBag
    /\ last = NoResult
    /\ NotStarted
    /\ SeedIdle
    /\ StreamIdle
    /\ env \in EnvOptions
    /\ adminLog = <<>>

AdminNext == PostAdminSeed

AdminSpec == AdminInit /\ [][AdminNext]_vars

-----------------------------------------------------------------------------
(* Properties of the aggregator (AggSpec) *)

\* every key an input record or the output carries
KeysIn(recs) == UNION { DOMAIN recs[i].data : i \in 1..Len(recs) }

HasNumeric(recs, key) ==
    \E i \in 1..Len(recs) : key \in DOMAIN recs[i].data /\ IsNumber(recs[i].data[key])

RECURSIVE NumericSum(_, _)
\* the sum of the numeric values of key; a record without one counts as zero
NumericSum(recs, key) ==
    IF recs = <<>> THEN 0
    ELSE (IF key \in DOMAIN Head(recs).data /\ IsNumber(Head(recs).data[key])
          THEN Head(recs).data[key].v ELSE 0) + NumericSum(Tail(recs), key)

Merged == aggOut.kind = "record" /\ Len(records) >= 2

\* C1: merging two or more records, the output has a numeric value for a key
\* exactly when some input has a numeric value for it, and that value is the
\* sum of the inputs' numeric values of the key; no numeric field is made up.
C1_SumOfNumericFields ==
    Merged =>
        \A key \in KeysIn(records) \cup DOMAIN aggOut.rec.data :
            /\ (key \in DOMAIN aggOut.rec.data /\ aggOut.rec.data[key].t = "num")
                   <=> HasNumeric(records, key)
            /\ HasNumeric(records, key) =>
                   aggOut.rec.data[key] = Num(NumericSum(records, key))

\* three records: one lacks the stage key, one has NaN, one has 35; rainfall
\* is null in all of them
C1_Witness ==
    /\ Merged
    /\ Len(records) = 3
    /\ "stageOfExtractionTotal" \notin DOMAIN records[1].data
    /\ Get(records[2].data, "stageOfExtractionTotal") = NaN
    /\ Get(aggOut.rec.data, "stageOfExtractionTotal") = Num(35)
    /\ "rainfallTotal" \notin DOMAIN aggOut.rec.data

\* the category the thresholds give for a summed stage of extraction
CategoryOfSum(recs) ==
    IF ~HasNumeric(recs, "stageOfExtractionTotal") THEN "Unknown"
    ELSE LET sum == NumericSum(recs, "stageOfExtractionTotal") IN
         CASE sum = 0 -> "Unknown"
           [] sum # 0 /\ sum < 70 -> "Safe"
           [] 70 <= sum /\ sum < 90 -> "Semi-Critical"
           [] 90 <= sum /\ sum < 100 -> "Critical"
           [] sum >= 100 -> "Over-Exploited"

\* C2: merging two or more records, the category is the one the thresholds
\* give for the summed stage of extraction ("Unknown" for an absent or zero
\* sum), and the command / non-command / poor-quality labels are null: no
\* input label survives.
C2_CategoryFromSummedStage ==
    Merged =>
        /\ aggOut.rec.data.categoryTotal = Str(CategoryOfSum(records))
        /\ aggOut.rec.data.categoryCommand = Null
        /\ aggOut.rec.data.categoryNonCommand = Null
        /\ aggOut.rec.data.categoryPoorQuality = Null

\* two rows labelled "safe" whose stages sum to 95
C2_Witness ==
    /\ Merged
    /\ \A i \in 1..Len(records) : records[i].data.categoryTotal = Str("safe")
    /\ NumericSum(records, "stageOfExtractionTotal") = 95
    /\ aggOut.rec.data.categoryTotal = Str("Critical")

\* C11: called with exactly one record the aggregator returns that record as
\* it is (location, year, every field, the stored category); called with an
\* empty list it returns null.
C11_SingleRecordUnchanged ==
    aggOut # NoResult =>
        /\ Len(records) = 0 => aggOut = [kind |-> "null"]
        /\ Len(records) = 1 => aggOut = [kind |-> "record", rec |-> records[1]]

\* one record labelled "critical" with a stage of 50 and a null rainfall: the
\* thresholds would give "Safe"
C11_Witness ==
    /\ Len(records) = 1
    /\ aggOut.kind = "record"
    /\ Get(records[1].data, "stageOfExtractionTotal") = Num(50)
    /\ records[1].data.rainfallTotal = Null
    /\ aggOut.rec.data.categoryTotal = Str("critical")
    /\ aggOut.rec.data.categoryCommand = Str("critical")

\* the numeric fields of a record
NumericFields(data) == [key \in {k \in DOMAIN data : IsNumber(data[k])} |-> data[key]]

\* C12: after two or more records were merged, aggregating again, the first
\* output with itself or the same records given twice, yields the numeric
\* fields and the category of the first aggregation: nothing is counted
\* twice.
C12_Idempotent ==
    (Merged /\ last.kind = "call" /\ last.op = "aggregateGroundwaterRecords") =>
        /\ last.out.kind = "record"
        /\ NumericFields(last.out.rec.data) = NumericFields(aggOut.rec.data)
        /\ last.out.rec.data.categoryTotal = aggOut.rec.data.categoryTotal

-----------------------------------------------------------------------------
(* Properties of the year resolver (YearSpec) *)

Resolved == last.kind = "call" /\ last.op = "getFilteredYears"

\* neither a range bound nor a year list was supplied
NoRangeNoList(params) ==
    /\ ~Truthy(params, "fromYear")
    /\ ~Truthy(params, "toYear")
    /\ "specificYears" \notin DOMAIN params

YearsInStore == {r.year : r \in BagToSet(store)}

Filtered == last.kind = "call" /\ last.op = "filterRecordsByYear"

ListGiven(params) == "specificYears" \in DOMAIN params

RangeGiven(params) == Truthy(params, "fromYear") \/ Truthy(params, "toYear")

\* the years of the store that are members of the list, ascending
YearsOfList(list) == SortedYears({y \in YearsInStore : \E i \in 1..Len(list) : list[i] = y})

\* the years of the store within the bounds that are present, ascending
YearsOfRange(params) ==
    SortedYears({y \in YearsInStore :
        /\ Truthy(params, "fromYear") => params.fromYear <= y
        /\ Truthy(params, "toYear") => y <= params.toYear})

YearsOf(recs) == [i \in 1..Len(recs) |-> recs[i].year]

\* C15: with an explicit year list the resolved years are exactly the
\* available years that are members of the list, ascending; years that do not
\* exist are dropped, the intersection may be empty; filterRecordsByYear
\* keeps the records of those years.
C15_ListIntersection ==
    /\ (Resolved /\ ListGiven(last.args)) =>
           last.out.yearsToQuery = YearsOfList(last.args.specificYears)
    /\ (Filtered /\ ListGiven(last.args.params)) =>
           YearsOf(last.out) = YearsOfList(last.args.params.specificYears)

\* C16: with a range and no year list the resolved years are exactly the
\* available years y with from <= y <= to, for the bounds that are present;
\* filterRecordsByYear keeps the records of those years.
C16_InclusiveRange ==
    /\ (Resolved /\ RangeGiven(last.args) /\ ~ListGiven(last.args)) =>
           last.out.yearsToQuery = YearsOfRange(last.args)
    /\ (Filtered /\ RangeGiven(last.args.params) /\ ~ListGiven(last.args.params)) =>
           YearsOf(last.out) = YearsOfRange(last.args.params)

\* the store holds 2023, 2024 and 2025; the range 2023 to 2024 resolves to
\* both of its bounds
C16_Witness ==
    /\ Resolved
    /\ YearsInStore = {2023, 2024, 2025}
    /\ last.args = [fromYear |-> 2023, toYear |-> 2024]
    /\ last.out.yearsToQuery = <<2023, 2024>>

\* C17: the historical flag is true exactly when a range bound or a year list
\* was supplied, however many years survive the filter.
C17_HistoricalIffRangeOrList ==
    Resolved => (last.out.isHistorical <=> (RangeGiven(last.args) \/ ListGiven(last.args)))

\* a list of one year the store does not hold: no year survives and the
\* answer is still historical
C17_Witness ==
    /\ Resolved
    /\ YearsInStore = {2022, 2023}
    /\ last.args = [specificYears |-> <<2021>>]
    /\ last.out.yearsToQuery = <<>>
    /\ last.out.isHistorical

\* C18: one form of the year specification is honoured: a year list alone
\* determines the years when one is supplied; otherwise the range, when a
\* bound is supplied; otherwise the single year.  filterRecordsByYear
\* applies the same precedence.
C18_OneFormHonoured ==
    /\ Resolved =>
           last.out.yearsToQuery =
               IF ListGiven(last.args) THEN YearsOfList(last.args.specificYears)
               ELSE IF RangeGiven(last.args) THEN YearsOfRange(last.args)
               ELSE <<last.out.targetYear>>
    /\ (Filtered /\ (ListGiven(last.args.params) \/ RangeGiven(last.args.params))) =>
           YearsOf(last.out) =
               IF ListGiven(last.args.params) THEN YearsOfList(last.args.params.specificYears)
               ELSE YearsOfRange(last.args.params)

-----------------------------------------------------------------------------
(* Properties of the read operations (StoreSpec) *)

CalledOp(op) == last.kind = "call" /\ last.op = op

Distinct(seq, F(_)) == \A i, j \in 1..Len(seq) : i # j => F(seq[i]) # F(seq[j])

\* C3: no read exposes two records of one location and year:
\* getGroundwaterDataByLocationId returns one record or none, the historical
\* path one record per year, a single-year ranking each location at most once.
C3_OneRecordPerLocationAndYear ==
    /\ CalledOp("getGroundwaterDataByLocationId") => last.out.kind \in {"null", "record"}
    /\ CalledOp("getHistoricalDataByLocationName") => Distinct(last.out, LAMBDA r : r.year)
    /\ CalledOp("getTopLocationsByField") => Distinct(last.out, LAMBDA r : r.location.id)

\* the locations of a type that have a value of the field in a year
LocationsWithValue(field, type, year) ==
    { r.locationId : r \in { x \in BagToSet(store) :
          /\ LocationOf(x.locationId).type = type
          /\ x.year = year
          /\ Get(x, metricToField(field)) \notin {Undefined, Null} } }

\* C7: a single-year ranking holds only locations of the requested type that
\* have a value of the field in the year, sorted by that value in the
\* requested order, and exactly min(k, number of such locations) of them.
C7_SingleYearRanking ==
    CalledOp("getTopLocationsByField") =>
        LET a == last.args
            with == LocationsWithValue(a.field, a.type, a.year)
            column == metricToField(a.field)
        IN /\ \A i \in 1..Len(last.out) : last.out[i].location.id \in with
           /\ \A i, j \in 1..Len(last.out) :
                  i < j => IF a.order = "desc"
                           THEN last.out[i].data[column].v >= last.out[j].data[column].v
                           ELSE last.out[i].data[column].v <= last.out[j].data[column].v
           /\ Len(last.out) = IF a.limit < Cardinality(with) THEN a.limit ELSE Cardinality(with)

MultiYear == CalledOp("get_top_locations") /\ last.out.found /\ last.out.isHistorical

\* the values a location had in the per-year lists it appeared in
RECURSIVE ValuesOfLocation(_, _, _)
ValuesOfLocation(id, fetched, metric) ==
    IF fetched = <<>> THEN <<>>
    ELSE LET here == FilterSeq(Head(fetched), LAMBDA r : r.location.id = id)
         IN [i \in 1..Len(here) |-> MetricValue(here[i].data, metric).v]
            \o ValuesOfLocation(id, Tail(fetched), metric)

FetchedLocations(fetched) ==
    UNION { {fetched[j][i].location : i \in 1..Len(fetched[j])} : j \in 1..Len(fetched) }

\* C8: in a multi-year ranking the entry of a location that appeared in a
\* per-year list carries the mean, minimum and maximum of exactly the values
\* that location had in the years in which it appeared; the output is sorted
\* by the mean in the requested order and has at most k entries.
C8_MultiYearStatistics ==
    MultiYear =>
        LET out == last.out.data
            a == last.args
        IN /\ Len(out) <= a.limit
           /\ \A i, j \in 1..Len(out) :
                  i < j => IF a.order = "desc" THEN RatioLeq(out[j].avgValue, out[i].avgValue)
                           ELSE RatioLeq(out[i].avgValue, out[j].avgValue)
           /\ \A i \in 1..Len(out) :
                  /\ RatioLeq(Ratio(out[i].minValue, 1), out[i].avgValue)
                  /\ RatioLeq(out[i].avgValue, Ratio(out[i].maxValue, 1))
                  /\ \A l \in FetchedLocations(last.out.fetched) :
                         l.name = out[i].name =>
                             LET values == ValuesOfLocation(l.id, last.out.fetched, a.metric) IN
                             /\ out[i].avgValue.num * Len(values) = SeqSum(values) * out[i].avgValue.den
                             /\ out[i].minValue = Min(SeqRange(values))
                             /\ out[i].maxValue = Max(SeqRange(values))

\* the first catalog position of a location of that name and type
FirstIndexOfName(name, type) ==
    Min({i \in 1..Len(Catalog) : Catalog[i].name = name /\ Catalog[i].type = type})

\* C9: locations with equal metric values come in catalog insertion order, in
\* a single-year ranking and in a multi-year ranking (equal means).
C9_TiesInCatalogOrder ==
    /\ CalledOp("getTopLocationsByField") =>
           LET column == metricToField(last.args.field) IN
           \A i, j \in 1..Len(last.out) :
               (i < j /\ last.out[i].data[column] = last.out[j].data[column]) =>
                   CatalogIndex(last.out[i].location.id) <= CatalogIndex(last.out[j].location.id)
    /\ MultiYear =>
           LET out == last.out.data IN
           \A i, j \in 1..Len(out) :
               (i < j /\ RatioLeq(out[i].avgValue, out[j].avgValue)
                      /\ RatioLeq(out[j].avgValue, out[i].avgValue)) =>
                   FirstIndexOfName(out[i].name, last.args.type)
                       <= FirstIndexOfName(out[j].name, last.args.type)

\* C9 for the multi-year ranking alone
C9_MultiYearTiesInCatalogOrder ==
    MultiYear =>
        LET out == last.out.data IN
        \A i, j \in 1..Len(out) :
            (i < j /\ RatioLeq(out[i].avgValue, out[j].avgValue)
                   /\ RatioLeq(out[j].avgValue, out[i].avgValue)) =>
                FirstIndexOfName(out[i].name, last.args.type)
                    <= FirstIndexOfName(out[j].name, last.args.type)

\* the raw rows of a name and type that fall in a year
RowsOfNameAndYear(name, type, year) ==
    SelectRows(store, LAMBDA r :
        /\ LocationOf(r.locationId).type = type
        /\ NormalizeName(LocationOf(r.locationId).name) = NormalizeName(name)
        /\ r.year = year)

\* C10: in the by-year path a year with exactly one raw record is emitted
\* unchanged: every field of the record, the stored category included.
C10_SingletonYearUnchanged ==
    CalledOp("getHistoricalDataByLocationName") =>
        \A i \in 1..Len(last.out) :
            LET rows == RowsOfNameAndYear(last.args.locationName, last.args.locationType,
                                          last.out[i].year)
            IN BagCardinality(rows) = 1 =>
                   \A r \in BagToSet(rows) : last.out[i].data = RowData(r)

\* C21: the trend series of a multi-year ranking has one point per year in
\* scope, in the order of the resolved years; a point carries values for the
\* first min(5, k) locations of the final ranking and no others; the value of
\* a location at a year is its metric value in that year's ranking, or null
\* if it is not in that year's list.
C21_TrendSeries ==
    MultiYear =>
        LET years == last.out.yearsAnalyzed
            trend == last.out.trendData
            top == Take(last.out.data, TREND_TOP)
        IN /\ Len(top) = Min({TREND_TOP, Len(last.out.data)})
           /\ Len(trend) = Len(years)
           /\ \A j \in 1..Len(trend) :
                  /\ trend[j].year = years[j]
                  /\ [i \in 1..Len(trend[j].series) |-> trend[j].series[i].name]
                         = [i \in 1..Len(top) |-> top[i].name]
                  /\ \A i \in 1..Len(top) :
                         LET listed == FilterSeq(last.out.fetched[j],
                                           LAMBDA r : r.location.name = top[i].name)
                         IN IF listed = <<>> THEN trend[j].series[i].value = Null
                            ELSE \A k \in 1..Len(listed) :
                                     trend[j].series[i].value
                                         = MetricValue(listed[k].data, last.args.metric)

\* the years in which a location of the name and type has a raw row
YearsOfName(name, type) ==
    { r.year : r \in { x \in BagToSet(store) :
          /\ LocationOf(x.locationId).type = type
          /\ NormalizeName(LocationOf(x.locationId).name) = NormalizeName(name) } }

\* C20: the historical aggregate has exactly one record for each year that
\* has a raw row, no year twice, in ascending order of year.
C20_OneRecordPerYearAscending ==
    CalledOp("getHistoricalDataByLocationName") =>
        YearsOf(last.out) = SortedYears(YearsOfName(last.args.locationName,
                                                    last.args.locationType))

\* three rows of the two districts named Bilaspur, two of them of 2024-2025,
\* give one record for 2023-2024 and one for 2024-2025
C20_Witness ==
    /\ CalledOp("getHistoricalDataByLocationName")
    /\ last.args.locationName = "bilaspur"
    /\ BagCardinality(store) = 3
    /\ \E a, b, c \in BagToSet(store) :
          /\ a.locationId = "L1" /\ a.year = 2024
          /\ b.locationId = "L2" /\ b.year = 2024
          /\ c.locationId = "L1" /\ c.year = 2023
    /\ YearsOf(last.out) = <<2023, 2024>>

-----------------------------------------------------------------------------
(* Properties of the catalog (CatalogSpec) *)

\* no load has succeeded: the call has not been made, is still trying, or
\* has given up
NoCatalog == initPc \in {"idle", "loading", "waiting", "rejected"}

\* C4: while no load has succeeded (before the background initialisation has
\* finished, and after it has exhausted its retries) every catalog-dependent
\* read fails with the "not initialized" error; none returns a value.
C4_ReadsFailWhenNotInitialized ==
    (last.kind = "call" /\ last.op \in CatalogReads /\ NoCatalog) =>
        last.out = Threw(NOT_INITIALIZED)

CountEvents(log, e) == Cardinality({k \in 1..Len(log) : log[k].e = e})

InitStep == LoadOk \/ LoadFail \/ TimerFires

\* C5: initLocationSearch(retries, delay) makes at most `retries` load
\* attempts, one after another; the first success publishes the catalog and
\* ends the call; a failed attempt that is not the last is followed by a
\* wait of `delay` and then the next attempt; the last failed attempt is
\* followed by the rejection, without a wait; and the call terminates: it
\* takes at most 3 * retries steps and is never stuck before it has ended.
C5_BoundedRetry ==
    LET log == initLog
        retries == initArgs.retries
        loadsBefore(k) == Cardinality({m \in 1..(k - 1) : log[m].e = "load"})
    IN /\ CountEvents(log, "load") <= (IF retries > 0 THEN retries ELSE 0)
       /\ CountEvents(log, "ok") <= 1
       /\ \A k \in 1..Len(log) :
            /\ log[k].e = "load" => (k = 1 \/ log[k - 1] = WaitEvent(initArgs.delay))
            /\ log[k].e = "fail" => (k > 1 /\ log[k - 1].e = "load")
            /\ log[k].e = "ok" => (k > 1 /\ log[k - 1].e = "load" /\ k = Len(log))
            /\ log[k].e = "wait" =>
                   /\ k > 1 /\ log[k - 1].e = "fail"
                   /\ log[k].ms = initArgs.delay
                   /\ loadsBefore(k) < retries
            /\ log[k].e = "reject" =>
                   /\ k > 1 /\ log[k - 1].e = "fail" /\ k = Len(log)
                   /\ loadsBefore(k) = retries
       /\ (Len(log) > 0 /\ log[Len(log)].e = "ok") <=>
              (initPc = "resolved" /\ fuse = NewFuse(Catalog) /\ locationCache = Catalog)
       /\ (Len(log) > 0 /\ log[Len(log)].e = "reject") <=> initPc = "rejected"
       /\ (Len(log) > 0 /\ log[Len(log)].e = "wait") <=> initPc = "waiting"
       /\ (Len(log) > 0 /\ log[Len(log)].e = "load") <=> initPc = "loading"
       /\ Len(log) <= 3 * (IF retries > 0 THEN retries ELSE 0)
       /\ initPc \in {"loading", "waiting"} => ENABLED InitStep

\* three attempts were allowed and all failed: load, fail, wait, load, fail,
\* wait, load, fail, reject
C5_Witness ==
    /\ initPc = "rejected"
    /\ initArgs = [retries |-> 3, delay |-> DEFAULT_DELAY]
    /\ initLog = <<Event("load"), Event("fail"), WaitEvent(DEFAULT_DELAY),
                   Event("load"), Event("fail"), WaitEvent(DEFAULT_DELAY),
                   Event("load"), Event("fail"), Event("reject")>>
    /\ fuse = NullFuse

-----------------------------------------------------------------------------
(* Properties of the location search (SearchSpec) *)

Searched == last.kind = "call" /\ last.op = "searchLocation"

\* the candidates of a query: the matches of the requested type, best first
Candidates(query, type) ==
    LET matches == FuseSearch(fuse, query) IN
    IF HasArg(type) THEN FilterSeq(matches, LAMBDA r : r.item.type = type) ELSE matches

\* the ids of the first three matches of the hint at the parent level
HintParents(parentName, type) ==
    LET parentType == IF type = "DISTRICT" THEN "STATE" ELSE "DISTRICT"
        matching == Take(FilterSeq(FuseSearch(fuse, parentName),
                                   LAMBDA r : r.item.type = parentType), 3)
    IN {matching[i].item.id : i \in 1..Len(matching)}

\* C13: a DISTRICT or TALUK query with a parent hint: if some candidate of
\* the type lies under one of the first three matches of the hint at the
\* parent level, every result lies under one of them; otherwise the result is
\* the one of the same query without the hint.  A hint never empties a
\* result.
C13_ParentHintAdvisory ==
    (Searched /\ last.args[2] \in {"DISTRICT", "TALUK"} /\ last.args[3] # NoArg) =>
        LET query == last.args[1]
            type == last.args[2]
            P == HintParents(last.args[3], type)
            candidates == Candidates(query, type)
            unhinted == searchLocation(query, type, NoArg)
        IN /\ last.out.kind = "value"
           /\ IF \E i \in 1..Len(candidates) : candidates[i].item.parentId \in P
              THEN \A i \in 1..Len(last.out.value) : last.out.value[i].location.parentId \in P
              ELSE last.out = unhinted
           /\ Len(unhinted.value) > 0 => Len(last.out.value) > 0

\* "pur" among the districts with the hint "pradesh": the first three states
\* for the hint are Andhra, Madhya and Uttar Pradesh, and the three districts
\* under them are the result
C13_Witness ==
    /\ Searched
    /\ locationCache = SearchCatalog
    /\ last.args = <<"pur", "DISTRICT", "pradesh">>
    /\ HintParents("pradesh", "DISTRICT") = {"AP", "MP", "UP"}
    /\ Len(Candidates("pur", "DISTRICT")) = 7
    /\ last.out.kind = "value"
    /\ [i \in 1..Len(last.out.value) |-> last.out.value[i].location.id] = <<"D4", "D6", "D7">>

\* C14: the result is the first five, at most, of the candidates that remain
\* after the type filter, best first: scores do not increase, a score is one
\* minus the match distance, between 0 and 1; with a type every result has
\* it, and the cap applies after the type filter; an empty query or an empty
\* catalog gives the empty list and no error.
C14_TopFiveOfTypedCandidates ==
    Searched =>
        LET query == last.args[1]
            type == last.args[2]
            candidates == Candidates(query, type)
            n == IF Len(candidates) < 5 THEN Len(candidates) ELSE 5
        IN /\ last.out.kind = "value"
           /\ LET out == last.out.value IN
              /\ Len(out) <= 5
              /\ \A i \in 1..Len(out) :
                     /\ out[i].score = SCORE_ONE - MatchDistance(query, out[i].location.name)
                     /\ out[i].score \in 0..SCORE_ONE
                     /\ HasArg(type) => out[i].location.type = type
                     /\ \E k \in 1..Len(candidates) : candidates[k].item = out[i].location
              /\ \A i, j \in 1..Len(out) : i < j => out[i].score >= out[j].score
              /\ ~HasArg(last.args[3]) =>
                     [i \in 1..Len(out) |-> out[i].location] = [i \in 1..n |-> candidates[i].item]
              /\ (query = "" \/ locationCache = <<>>) => out = <<>>

\* "pur" among the taluks: five districts match better than the taluk
\* Bilaspur, which is still returned
C14_Witness ==
    /\ Searched
    /\ locationCache = SearchCatalog
    /\ last.args = <<"pur", "TALUK", NoArg>>
    /\ \A i \in 1..5 : FuseSearch(fuse, "pur")[i].item.id # "T1"
    /\ last.out = Returned(<<[location |-> SearchCatalog[15], score |-> 8],
                             [location |-> SearchCatalog[14], score |-> 7]>>)

-----------------------------------------------------------------------------
(* Properties of the catalog snapshot (ReloadSpec) *)

\* the list and the index a reader finds come from one load
SnapshotConsistent ==
    IF fuse.built THEN fuse.docs = locationCache ELSE locationCache = <<>>

\* a step changes the list or the index only by publishing both, built from
\* the table one successful load returned
SwapOnly ==
    <<locationCache, fuse>>' # <<locationCache, fuse>> =>
        /\ initPc = "loading" /\ initPc' = "resolved"
        /\ initLog' = Append(initLog, Event("ok"))
        /\ locationCache' \in Tables
        /\ fuse' = NewFuse(locationCache')

\* a failed attempt leaves the list and the index as they were
FailureKeepsSnapshot ==
    (initPc = "loading" /\ initPc' \in {"waiting", "rejected"}) =>
        UNCHANGED <<locationCache, fuse>>

\* C19: whatever reads, initialisations and re-initialisations interleave,
\* the list and the index a reader finds come from the same load; they change
\* only by being replaced together after a successful load; a failed attempt
\* leaves the published list and index untouched.
C19_SnapshotSwap ==
    []SnapshotConsistent /\ [][SwapOnly /\ FailureKeepsSnapshot]_vars

\* a second call is waiting after a failed attempt, the snapshot of the
\* first call is still published, and a read has just been served from it
C19_Witness ==
    /\ initPc = "waiting"
    /\ initLog = <<Event("load"), Event("fail"), WaitEvent(DEFAULT_DELAY)>>
    /\ initArgs.retries = 2
    /\ locationCache = Catalog
    /\ fuse = NewFuse(Catalog)
    /\ last = Called("getAllDistricts", <<>>, Returned(SubSeq(Catalog, 4, 6)))

-----------------------------------------------------------------------------
(* Properties of the seeding run (SeedSpec) *)

\* COUNTRY, STATE, DISTRICT, TALUK: the four levels, top down
Level(type) ==
    CASE type = "COUNTRY" -> 1 [] type = "STATE" -> 2
      [] type = "DISTRICT" -> 3 [] type = "TALUK" -> 4

ParentsOf(r) == {p \in locations : p.id = r.parentId}

RECURSIVE Above(_, _)
\* the ids met on the way up from a row, in at most n steps
Above(r, n) ==
    IF n = 0 THEN {}
    ELSE UNION { {p.id} \cup Above(p, n - 1) : p \in ParentsOf(r) }

\* the run has made a call since the table was cleared
Seeding == seedRun.pc \notin {"idle", "year"} \/ seedCalls # <<>>

\* C22: after any seeding steps every location row is a COUNTRY exactly if
\* its parentId is null, every other row has exactly one parent row and that
\* row is one level above it, and no row is above itself.
C22_Hierarchy ==
    Seeding =>
        \A r \in locations :
            /\ (r.type = "COUNTRY") <=> (r.parentId = NoId)
            /\ r.type # "COUNTRY" =>
                  /\ Cardinality(ParentsOf(r)) = 1
                  /\ \A p \in ParentsOf(r) : Level(p.type) = Level(r.type) - 1
            /\ r.id \notin Above(r, Cardinality(locations))

\* the (type, name, parent id) a call or a row stands for
KeyOfCall(c) == <<c.type, c.name, c.parentDbId>>
KeyOfRow(r) == <<r.type, r.name, r.parentId>>

\* the call presents an external id that no earlier call of the run presented
FirstUse(i) == \A h \in 1..(i - 1) : seedCalls[h].externalId # seedCalls[i].externalId

SameExternalIdSameId ==
    \A i, j \in 1..Len(seedCalls) :
        seedCalls[i].externalId = seedCalls[j].externalId => seedCalls[i].id = seedCalls[j].id

OneRowPerExternalIdAndKey ==
    /\ \A r1, r2 \in locations :
          (r1.externalId = r2.externalId \/ KeyOfRow(r1) = KeyOfRow(r2)) => r1 = r2
    /\ \A i, j \in 1..Len(seedCalls) :
          (/\ seedCalls[i].inserted /\ seedCalls[j].inserted
           /\ \/ seedCalls[i].externalId = seedCalls[j].externalId
              \/ KeyOfCall(seedCalls[i]) = KeyOfCall(seedCalls[j])) => i = j

\* C29 as stated: in one run the same externalId always yields the same id,
\* two calls with the same (type, name, parent id) yield the same id whatever
\* their externalIds, and at most one row is inserted per externalId and per
\* (type, name, parent id).
C29_SameKeySameId ==
    Seeding =>
        /\ SameExternalIdSameId
        /\ \A i, j \in 1..Len(seedCalls) :
              KeyOfCall(seedCalls[i]) = KeyOfCall(seedCalls[j])
                  => seedCalls[i].id = seedCalls[j].id
        /\ OneRowPerExternalIdAndKey

\* C29 amended: the same externalId always yields the same id; two calls
\* with the same (type, name, parent id) yield the same id when each presents
\* its externalId for the first time; at most one row is inserted per
\* externalId and per (type, name, parent id).
C29_FirstUseSameKeySameId ==
    Seeding =>
        /\ SameExternalIdSameId
        /\ \A i, j \in 1..Len(seedCalls) :
              (/\ KeyOfCall(seedCalls[i]) = KeyOfCall(seedCalls[j])
               /\ FirstUse(i) /\ FirstUse(j))
                  => seedCalls[i].id = seedCalls[j].id
        /\ OneRowPerExternalIdAndKey

\* two external ids were presented with one (type, name, parent id) and got
\* one id, and an external id was presented again
C29_Witness ==
    /\ \E i, j \in 1..Len(seedCalls) :
          /\ i < j
          /\ seedCalls[i].externalId # seedCalls[j].externalId
          /\ KeyOfCall(seedCalls[i]) = KeyOfCall(seedCalls[j])
          /\ seedCalls[i].inserted /\ FirstUse(j)
          /\ seedCalls[i].id = seedCalls[j].id
    /\ \E i, j \in 1..Len(seedCalls) :
          /\ i < j
          /\ seedCalls[i].type # "COUNTRY"
          /\ seedCalls[i].externalId = seedCalls[j].externalId
          /\ seedCalls[i].name # seedCalls[j].name

-----------------------------------------------------------------------------
(* Properties of the chat stream (StreamSpec) *)

Terminal(event) == event.type \in {"done", "error"}

TerminalAt == {i \in 1..Len(res.body) : Terminal(res.body[i])}

\* the first event of the stream has been written
StreamStarted == Len(res.body) > 0 /\ res.body[1].type # "json"

\* the response is closed on a terminal event, the only one of the stream
ClosedOnTerminal == res.ended /\ TerminalAt = {Len(res.body)}

\* what has been written so far: a terminal event only as the last event of
\* a closed response, and a suggestions event only directly before done
StreamShape ==
    StreamStarted =>
        /\ \A i \in 1..Len(res.body) : res.body[i].type # "json"
        /\ IF res.ended THEN TerminalAt = {Len(res.body)} ELSE TerminalAt = {}
        /\ \A i \in 1..Len(res.body) :
              res.body[i].type = "suggestions" =>
                  /\ i = Len(res.body) - 1
                  /\ res.body[Len(res.body)].type = "done"
                  /\ \A h \in 1..(i - 1) :
                        res.body[h].type \in {"token", "tool_call", "tool_result", "chart"}

\* a closed response stays as it is
ClosedIsFinal == res.ended => res' = res

\* C23: a stream request whose event stream has started ends with exactly
\* one terminal event, done or error, which is the last event written; the
\* response is then closed and nothing more is written; a suggestions event
\* comes after all token, tool_call, tool_result and chart events and
\* directly before done.
C23_OneTerminalEvent ==
    /\ []StreamShape
    /\ [][ClosedIsFinal]_vars
    /\ StreamStarted ~> ClosedOnTerminal

\* a stream of tokens, a tool call, its result and a chart that ended with
\* suggestions and done
C23_Witness ==
    /\ ClosedOnTerminal
    /\ Len(res.body) >= 4
    /\ res.body[Len(res.body)].type = "done"
    /\ res.body[Len(res.body) - 1].type = "suggestions"
    /\ \E i \in 1..Len(res.body) : res.body[i].type = "chart"

\* a stream that had started and ended with an error event
C23_ErrorWitness ==
    /\ ClosedOnTerminal
    /\ Len(res.body) >= 2
    /\ res.body[Len(res.body)].type = "error"

-----------------------------------------------------------------------------
(* Properties of the ranking tool's choice of years (StoreSpec) *)

\* what the year resolver makes of the year parameters of the tool call
ResolvedYears == getFilteredYears(last.args.yearParams, getAvailableYears).yearsToQuery

RangeOrListResolved ==
    /\ CalledOp("get_top_locations")
    /\ RangeGiven(last.args.yearParams) \/ ListGiven(last.args.yearParams)
    /\ Len(ResolvedYears) >= 1

\* the result is the single-year ranking of the year
RankingOfYear(out, year) ==
    \E recs \in getTopLocationsByField(last.args.metric, last.args.type, last.args.order,
                                       last.args.limit, year) :
        IF Len(recs) = 0 THEN ~out.found
        ELSE /\ out.found
             /\ out.data = RankingOf(recs, last.args.metric)
             /\ ~out.isHistorical => out.year = year

\* C24: when a range or a year list is supplied and resolves to at least one
\* available year, every year for which get_top_locations computes or
\* reports a ranking is one of the resolved years, and when it resolves to
\* exactly one year the ranking returned is the ranking of that year.
C24_RankedYearsAreResolved ==
    RangeOrListResolved =>
        /\ last.out.found =>
              /\ last.out.isHistorical => last.out.yearsAnalyzed = ResolvedYears
              /\ ~last.out.isHistorical => Includes(ResolvedYears, last.out.year)
              /\ \A j \in 1..Len(last.out.fetched) : \A i \in 1..Len(last.out.fetched[j]) :
                    Includes(ResolvedYears, last.out.fetched[j][i].year)
        /\ Len(ResolvedYears) = 1 => RankingOfYear(last.out, ResolvedYears[1])

-----------------------------------------------------------------------------
(* Properties of the two read paths of one location (StoreSpec) *)

HistoricalOfYear(out, year) == FilterSeq(out, LAMBDA h : h.year = year)

\* C25: for the location L that the search returns as best match and a year
\* y, the record of y on the historical path has the same summed numeric
\* fields as getGroundwaterDataByLocationId(L.id, y); rows of another
\* location with L's normalised name and type do not contribute, so a year
\* without rows of L has no record.
C25_HistoricalAgreesWithSingleYear ==
    CalledOp("searchAndGetHistoricalData") =>
        \A L \in BestMatch(last.args.query, last.args.locationType) :
            \A y \in RowYears :
                \A single \in getGroundwaterDataByLocationId(L.id, y) :
                    LET ofYear == HistoricalOfYear(last.out, y) IN
                    IF single.kind = "null" THEN ofYear = <<>>
                    ELSE /\ Len(ofYear) = 1
                         /\ NumericFields(ofYear[1].data) = NumericFields(single.rec.data)

-----------------------------------------------------------------------------
(* Properties of the metrics of the ranking (StoreSpec) *)

\* C26: every metric that get_top_locations accepts, that is every key of
\* METRIC_CONFIG, is mapped by fieldToColumn to a data column, so a ranking
\* by an accepted metric reads a column.
C26_AcceptedMetricHasColumn ==
    (CalledOp("getTopLocationsByField") /\ last.args.field \in VALID_METRICS) =>
        fieldToColumn(last.args.field) # NullColumn

\* the records of the per-year list j that went into the entry of a name
Contributions(name, j) ==
    FilterSeq(last.out.fetched[j], LAMBDA r : r.location.name = name)

\* C27: in a multi-year ranking every output entry aggregates the values of
\* exactly one location id, and at most one value of it per year: two
\* locations are never merged under one entry and no location contributes two
\* values for one year.
C27_OneLocationPerEntry ==
    MultiYear =>
        \A e \in 1..Len(last.out.data) :
            LET name == last.out.data[e].name
                ids == UNION { {Contributions(name, j)[i].location.id :
                                    i \in 1..Len(Contributions(name, j))} :
                               j \in 1..Len(last.out.fetched) }
            IN /\ Cardinality(ids) = 1
               /\ \A j \in 1..Len(last.out.fetched) : Len(Contributions(name, j)) <= 1

-----------------------------------------------------------------------------
(* Properties of the outcome of initLocationSearch (CatalogSpec) *)

\* C28: a call of initLocationSearch resolves only if a load succeeded and
\* the catalog and its index were published; for every value of retries,
\* zero and negative ones too, a call that has ended without a load that
\* succeeded has rejected.
C28_ResolvesOnlyLoaded ==
    /\ initPc = "resolved" =>
          /\ CountEvents(initLog, "ok") = 1
          /\ fuse.built
          /\ fuse.docs = locationCache
    /\ (initPc \in {"resolved", "rejected"} /\ CountEvents(initLog, "ok") = 0) =>
          initPc = "rejected"

-----------------------------------------------------------------------------
(* Properties of the seed endpoint (AdminSpec) *)

\* the request presents a key, and it is the configured key or the built-in
\* one
PresentsValidKey(adminKey) ==
    /\ adminKey # Undefined
    /\ adminKey = env \/ adminKey = BUILT_IN_KEY

\* C30: a request to POST /api/admin/seed that presents no valid admin key
\* in x-admin-key (no header, or a value that is not a configured key) is
\* answered 401 and starts no seeding, whether ADMIN_SEED_KEY is set or not.
C30_SeedNeedsKey ==
    \A i \in 1..Len(adminLog) :
        ~PresentsValidKey(adminLog[i].adminKey) =>
            adminLog[i].status = 401 /\ ~adminLog[i].started
====
